---- MODULE Spec2Model ----
(***************************************************************************)
(* Model of the custodial wallet engine of tetrid-tech/otaku: the CDP      *)
(* router (account provisioning, token / NFT / history aggregation,        *)
(* transfers with the viem fallback).                                      *)
(*                                                                         *)
(* The repository holds two revisions of the router:                       *)
(*   src/unnamed/part_000                      (native + Alchemy balances, *)
(*                                              viem fallback in /send)    *)
(*   src/packages/server/src/api/cdp/index.ts  (CDP listTokenBalances,     *)
(*                                              isNftContract probe)       *)
(* Handlers that differ between the two are modelled separately.           *)
(*                                                                         *)
(* Strings the code inspects (token, amount, ...) are sequences of         *)
(* one-character strings so that startsWith / BigInt parsing is computed.  *)
(***************************************************************************)
EXTENDS Integers, Sequences, FiniteSets, TLC

VARIABLES
    \* ---- process-wide state and environment
    cdpClient,      \* the singleton: TRUE once a CdpClient has been constructed
    cdpCreds,       \* environment: the three CDP credentials are all set
    alchemyKey,     \* environment: ALCHEMY_API_KEY is set
    \* ---- one POST /wallet/send or POST /wallet/send-nft request
    sendPc,         \* "idle" | "primary" | "fallback" | "nftWrite" | "nftWait" | "done"
    endpoint,       \* "" | "send" | "send-nft"
    body,           \* req.body
    cdpSuccess,     \* let cdpSuccess
    transactionHash,\* let transactionHash (0 = undefined)
    fromAddress,    \* let fromAddress ("" = unassigned)
    primaryOutcome, \* history: "none" | "hash" | "nohash" | "threw"
    fallbackOutcome,\* history: "none" | "hash" | "threw"
    broadcasts,     \* history: transactions that reached the network, in order
    receipts,       \* history: hashes whose transaction receipt was obtained
    sendRes,        \* the response sent (status 0 = none yet)
    \* ---- concurrent POST /wallet requests and the custody service
    accounts,       \* custody service: the accounts created so far, in order
    wPc,            \* per request: "idle" | "get" | "create" | "reget" | "done"
    wName,          \* per request: req.body.name
    wRes,           \* per request: the response sent (status 0 = none yet)
    \* ---- one GET /wallet/tokens/:name request
    tokPc,          \* "idle" | "loop" | "done"
    tokImpl,        \* "" | "alchemy" (part_000) | "cdp" (packages/.../cdp/index.ts)
    tokIdx,         \* index in networks of the next iteration of the for loop
    probe,          \* how getNFTsForContract answers during the request ("" = never asked)
    fetched,        \* history: per network, what the upstream calls answered
    allTokens,      \* const allTokens
    totalUsdValue,  \* let totalUsdValue
    tokRes,         \* the response sent (status 0 = none yet)
    \* ---- one GET /wallet/history/:name request
    histPc,         \* "idle" | "loop" | "done"
    histIdx,        \* index in networks of the next iteration of the for loop
    histNow,        \* the clock read by Date.now(), in ms
    histFetched,    \* history: per network, what alchemy_getAssetTransfers answered
    allTransactions,\* const allTransactions
    histRes,        \* the response sent (status 0 = none yet)
    \* ---- one GET /wallet/nfts/:name request
    nftPc,          \* "idle" | "loop" | "done"
    nftIdx,         \* index in networks of the next iteration of the for loop
    nftFetched,     \* history: per network, what getNFTsForOwner answered
    allNfts,        \* const allNfts
    nftRes,         \* the response sent (status 0 = none yet)
    \* ---- the price lookups made for the assets of one aggregation
    coingeckoKey,   \* environment: COINGECKO_API_KEY is set
    pricePc,        \* "idle" | "native" | "primary" | "secondary" | "done" | "threw"
    priceAsset,     \* the asset being priced: "native" or a contract address
    priceNetwork,   \* the network of the asset
    priceCalls,     \* history: the lookup functions called for the asset, in order
    priceOut,       \* the price resolved for the asset and where it came from
    priceCount,     \* the number of assets priced so far
    \* ---- one conversion of a raw balance to a number
    balImpl,        \* "" | "alchemy" (safeBalanceToNumber) | "cdp" (index.ts amountNum)
    balRaw,         \* the raw balance: the digits of balanceHex after 0x
    balDecimals,    \* decimals
    balOut,         \* the number returned, as a fraction
    \* ---- the normalization of one owned NFT by GET /wallet/nfts
    ownedNft,       \* the entry of data.ownedNfts (tokenId "" before the normalization)
    nftRecord,      \* the record pushed to allNfts for it
    \* ---- a sequence of getCdpClient calls
    instance,       \* the object the module's cdpClient variable holds (0 = null, k = the k-th client constructed)
    ctorCalls,      \* history: the number of new CdpClient(...) evaluations
    constructions,  \* history: the number of them that returned a client
    returned,       \* history: the values the calls returned, in order
    \* ---- the entities router and its database
    entDb,          \* the database: per entity id the stored entity (id "" = none stored)
    entRouter,      \* "none" before entitiesRouter(serverInstance), then "db" | "nodb"
    entLast,        \* history: the last request, its response and its database calls
    \* ---- the DefiLlama service's TVL history caches and the calls in flight
    cacheMax,       \* per cache: its MaxEntries setting (0 before initialize)
    cacheTtl,       \* the TTL setting of the caches, in clock ticks
    histCaches,     \* per cache: the Map's entries in insertion order
    cacheClock,     \* the clock read by Date.now()
    calls,          \* per caller: the call in flight and the now it captured
    cacheServed,    \* the entry the last step served from a cache, and its age
    \* ---- one call of fetchJsonWithRetry
    retryPc,        \* "idle" | "fetch" | "body" | "sleep" | "returned" | "threw" | "hung"
    retryOptions,   \* options: maxAttempts and baseDelayMs
    attempt,        \* the loop variable
    fetches,        \* history: the number of fetch calls made
    delays,         \* history: the delays waited, in order, as base part and jitter
    retryValue      \* the value returned ("" = none)

envVars  == <<cdpClient, cdpCreds, alchemyKey>>
sendVars == <<sendPc, endpoint, body, cdpSuccess, transactionHash, fromAddress,
              primaryOutcome, fallbackOutcome, broadcasts, receipts, sendRes>>
walletVars == <<accounts, wPc, wName, wRes>>
tokVars    == <<tokPc, tokImpl, tokIdx, probe, fetched, allTokens, totalUsdValue,
               tokRes>>

\* What the handlers of one group of endpoints leave alone
histVars   == <<histPc, histIdx, histNow, histFetched, allTransactions, histRes>>

nftVars    == <<nftPc, nftIdx, nftFetched, allNfts, nftRes>>

priceVars  == <<coingeckoKey, pricePc, priceAsset, priceNetwork, priceCalls,
                priceOut, priceCount>>

balVars    == <<balImpl, balRaw, balDecimals, balOut>>

nameVars == <<ownedNft, nftRecord>>

clientVars == <<instance, ctorCalls, constructions, returned>>

entVars == <<entDb, entRouter, entLast>>

cacheVars == <<cacheMax, cacheTtl, histCaches, cacheClock, calls, cacheServed>>

retryVars == <<retryPc, retryOptions, attempt, fetches, delays, retryValue>>

notSend    == <<walletVars, tokVars, histVars, nftVars, priceVars, balVars,
                nameVars,
                clientVars,
                entVars,
                cacheVars,
                retryVars>>
notWallet  == <<sendVars, tokVars, histVars, nftVars, priceVars, balVars,
                nameVars,
                clientVars,
                entVars,
                cacheVars,
                retryVars>>
notTokens  == <<sendVars, walletVars, histVars, nftVars, priceVars, balVars,
                nameVars,
                clientVars,
                entVars,
                cacheVars,
                retryVars>>
notHistory == <<sendVars, walletVars, tokVars, nftVars, priceVars, balVars,
                nameVars,
                clientVars,
                entVars,
                cacheVars,
                retryVars>>
notNfts    == <<sendVars, walletVars, tokVars, histVars, priceVars, balVars,
                nameVars,
                clientVars,
                entVars,
                cacheVars,
                retryVars>>
notPrice   == <<envVars, sendVars, walletVars, tokVars, histVars, nftVars, balVars,
                nameVars,
                clientVars,
                entVars,
                cacheVars,
                retryVars>>
notBalance == <<envVars, sendVars, walletVars, tokVars, histVars, nftVars,
                priceVars,
                nameVars,
                clientVars,
                entVars,
                cacheVars,
                retryVars>>
notName == <<envVars, sendVars, walletVars, tokVars, histVars, nftVars,
                priceVars, balVars,
                clientVars,
                entVars,
                cacheVars,
                retryVars>>
notClient == <<sendVars, walletVars, tokVars, histVars, nftVars,
                priceVars, balVars, nameVars,
                entVars,
                cacheVars,
                retryVars>>
notEntities == <<envVars, sendVars, walletVars, tokVars, histVars, nftVars,
                priceVars, balVars, nameVars, clientVars,
                cacheVars,
                retryVars>>
notCache == <<envVars, sendVars, walletVars, tokVars, histVars, nftVars,
                priceVars, balVars, nameVars, clientVars, entVars,
                retryVars>>
notRetry == <<envVars, sendVars, walletVars, tokVars, histVars, nftVars,
                priceVars, balVars, nameVars, clientVars, entVars, cacheVars>>

\* All the variables
vars == <<envVars, sendVars, walletVars, tokVars, histVars, nftVars,
         priceVars, balVars, nameVars, clientVars, entVars, cacheVars,
         retryVars>>

(***************************************************************************)
(* Strings                                                                 *)
(***************************************************************************)
Empty     == <<>>
Digits    == {"0", "1", "2", "3", "4", "5", "6", "7", "8", "9"}

\* token.startsWith('0x')
StartsWith0x(s) == Len(s) >= 2 /\ s[1] = "0" /\ s[2] = "x"

\* BigInt(s) of a string: returns for a decimal integer literal (the empty
\* string parses as 0n), throws a SyntaxError otherwise.
BigIntOk(s) == \A i \in 1..Len(s) : s[i] \in Digits

\* !x of a string
Falsy(s) == Len(s) = 0

(***************************************************************************)
(* getCdpClient                                                            *)
(***************************************************************************)
\* The value of the singleton after a call whose constructor behaves as ctorOk.
GetCdpClient(ctorOk) == cdpClient \/ (cdpCreds /\ ctorOk)

(***************************************************************************)
(* Responses                                                               *)
(***************************************************************************)
NoRes == [status |-> 0, code |-> "", transactionHash |-> 0, method |-> ""]

SendError(status, code) ==
    [status |-> status, code |-> code, transactionHash |-> 0, method |-> ""]

SendSuccess(hash, method) ==
    [status |-> 200, code |-> "", transactionHash |-> hash, method |-> method]

(***************************************************************************)
(* Request bodies                                                          *)
(***************************************************************************)
UserName   == <<"u", "1">>
EthToken   == <<"e", "t", "h">>
UsdcToken  == <<"u", "s", "d", "c">>
Erc20Token == <<"0", "x", "c">>
ToAddress  == <<"0", "x", "d">>
BadAddress == <<"d", "e", "a", "d">>
RawAmount  == <<"1", "0", "0", "0">>
FracAmount == <<"1", ".", "5">>
NftTokenId == <<"7">>

Names       == {UserName, Empty}
Networks    == {"base", "ethereum", "polygon"}
ReqNetworks == {"base", "polygon", "arbitrum", ""}
Recipients  == {ToAddress, BadAddress, Empty}
Tokens      == {EthToken, UsdcToken, Erc20Token, Empty}
Amounts     == {RawAmount, FracAmount, Empty}
TokenIds    == {NftTokenId, FracAmount, Empty}
Contracts   == {Erc20Token, Empty}

SendBodies ==
    [name : Names, network : ReqNetworks, to : Recipients, token : Tokens,
     amount : Amounts, contractAddress : {Empty}, tokenId : {Empty}]

NftBodies ==
    [name : Names, network : ReqNetworks, to : Recipients, token : {Empty},
     amount : {Empty}, contractAddress : Contracts, tokenId : TokenIds]

NoBody == [name |-> Empty, network |-> "", to |-> Empty, token |-> Empty,
           amount |-> Empty, contractAddress |-> Empty, tokenId |-> Empty]

\* account.address of the custody account of a name
Address(name) == <<"0", "x">> \o name

\* The signing libraries (CDP SDK, viem) reject a recipient that is not a
\* 0x address before anything is sent.
IsAddress(to) == StartsWith0x(to) /\ Len(to) = 3

(***************************************************************************)
(* POST /wallet/send (part_000)                                            *)
(***************************************************************************)
\* chainMap of the viem fallback
ChainMap == {"base", "base-sepolia", "ethereum", "ethereum-sepolia", "polygon"}

\* The USDC contract of the network, which the alias "usdc" denotes
UsdcContract == <<"0", "x", "u">>

NativeAsset == [kind |-> "native", contract |-> Empty]
Erc20Asset(contract) == [kind |-> "erc20", contract |-> contract]

\* The asset the custody service's transfer moves for a token identifier:
\* "eth", "usdc" or a contract address
PrimaryAsset(token) ==
    IF StartsWith0x(token) THEN Erc20Asset(token)
    ELSE IF token = UsdcToken THEN Erc20Asset(UsdcContract)
    ELSE NativeAsset

\* The asset the viem fallback moves: isNativeToken = !token.startsWith('0x')
\* selects sendTransaction, anything else writeContract on address token
FallbackAsset(token) ==
    IF ~StartsWith0x(token) THEN NativeAsset ELSE Erc20Asset(token)

\* A response that always names the fallback path.
MethodAlwaysFallback(success) == "viem-fallback"

\* A response that always names the primary path.
MethodAlwaysPrimary(success) == "cdp-sdk"

\* method: cdpSuccess ? 'cdp-sdk' : 'viem-fallback'
Method(success) == IF success THEN "cdp-sdk" ELSE "viem-fallback"

\* What a call that signs and sends may do: return the hash of the sent
\* transaction, return without a hash, fail before anything was sent, or fail
\* after the transaction was sent (the answer was lost, timed out, ...).
TransferOutcomes(to) ==
    IF IsAddress(to) THEN {"hash", "nohash", "throwBefore", "throwAfter"}
    ELSE {"throwBefore"}

WriteOutcomes(to) == TransferOutcomes(to) \ {"nohash"}

Sent(out) == out \in {"hash", "throwAfter"}

Broadcast(via, kind, chain) ==
    [via |-> via, kind |-> kind, chain |-> chain, hash |-> Len(broadcasts) + 1]

\* if (!name || !network || !to || !token || !amount)
SendBodyInvalid(b) ==
    Falsy(b.name) \/ b.network = "" \/ Falsy(b.to) \/ Falsy(b.token) \/ Falsy(b.amount)

\* Validation and getCdpClient; the request then enters the primary path.
SendReceive(b, ctorOk) ==
    /\ sendPc = "idle"
    /\ endpoint' = "send"
    /\ body' = b
    /\ IF SendBodyInvalid(b)
       THEN /\ sendRes' = SendError(400, "INVALID_REQUEST")
            /\ sendPc' = "done"
            /\ UNCHANGED cdpClient
       ELSE /\ cdpClient' = GetCdpClient(ctorOk)
            /\ IF cdpClient'
               THEN sendPc' = "primary" /\ UNCHANGED sendRes
               ELSE /\ sendRes' = SendError(503, "SERVICE_UNAVAILABLE")
                    /\ sendPc' = "done"
    /\ UNCHANGED <<cdpCreds, alchemyKey, cdpSuccess, transactionHash, fromAddress,
                   primaryOutcome, fallbackOutcome, broadcasts, receipts>>
    /\ UNCHANGED notSend

\* The statements after the inner try/catch: the hash check and sendSuccess.
SendFinish(hash, success) ==
    IF hash = 0
    THEN SendError(500, "SEND_FAILED")
    ELSE SendSuccess(hash, Method(success))

\* The try block: getOrCreateAccount, useNetwork, BigInt(amount), transfer.
\* A throw anywhere in it enters the catch block, i.e. the viem fallback.
SendPrimary(acctOk, netOk, xfer) ==
    /\ sendPc = "primary"
    /\ xfer \in TransferOutcomes(body.to)
    /\ LET out  == IF acctOk /\ netOk /\ BigIntOk(body.amount) THEN xfer
                   ELSE "throwBefore"
           tx   == Broadcast("cdp-sdk", "custody", body.network)
           hash == IF out = "hash" THEN tx.hash ELSE 0
       IN /\ fromAddress' = IF acctOk /\ netOk THEN Address(body.name) ELSE fromAddress
          /\ broadcasts' = IF Sent(out) THEN Append(broadcasts, tx) ELSE broadcasts
          /\ transactionHash' = hash
          /\ cdpSuccess' = (out = "hash")
          /\ primaryOutcome' = IF out \in {"hash", "nohash"} THEN out ELSE "threw"
          /\ IF out \in {"hash", "nohash"}
             THEN sendRes' = SendFinish(hash, out = "hash") /\ sendPc' = "done"
             ELSE sendPc' = "fallback" /\ UNCHANGED sendRes
    /\ UNCHANGED <<envVars, endpoint, body, fallbackOutcome, receipts>>
    /\ UNCHANGED notSend

\* The catch block: chainMap lookup, getOrCreateAccount, Alchemy key,
\* BigInt(amount), then sendTransaction (native) or writeContract (ERC-20).
\* A throw in it reaches the outer catch: 500 SEND_FAILED.
SendFallback(acctOk, send) ==
    /\ sendPc = "fallback"
    /\ send \in WriteOutcomes(body.to)
    /\ LET reached == /\ body.network \in ChainMap
                      /\ acctOk
                      /\ alchemyKey
                      /\ BigIntOk(body.amount)
           out  == IF reached THEN send ELSE "throwBefore"
           tx   == Broadcast("viem", FallbackAsset(body.token).kind, body.network)
           hash == IF out = "hash" THEN tx.hash ELSE transactionHash
       IN /\ fromAddress' = IF body.network \in ChainMap /\ acctOk
                            THEN Address(body.name) ELSE fromAddress
          /\ broadcasts' = IF Sent(out) THEN Append(broadcasts, tx) ELSE broadcasts
          /\ transactionHash' = hash
          /\ fallbackOutcome' = IF out = "hash" THEN "hash" ELSE "threw"
          /\ sendRes' = IF out = "hash" THEN SendFinish(hash, cdpSuccess)
                        ELSE SendError(500, "SEND_FAILED")
          /\ sendPc' = "done"
    /\ UNCHANGED <<envVars, endpoint, body, cdpSuccess, primaryOutcome, receipts>>
    /\ UNCHANGED notSend

(***************************************************************************)
(* POST /wallet/send-nft (identical in both revisions)                     *)
(***************************************************************************)
\* chainMap / rpcMap of send-nft
NftChainMap == {"base", "ethereum", "polygon"}

\* chainMap[network] || base
NftChain(network) == IF network \in NftChainMap THEN network ELSE "base"

\* if (!name || !network || !to || !contractAddress || !tokenId)
NftBodyInvalid(b) ==
    \/ Falsy(b.name) \/ b.network = "" \/ Falsy(b.to)
    \/ Falsy(b.contractAddress) \/ Falsy(b.tokenId)

\* Validation, getCdpClient and getOrCreateAccount.
NftReceive(b, ctorOk, acctOk) ==
    /\ sendPc = "idle"
    /\ endpoint' = "send-nft"
    /\ body' = b
    /\ IF NftBodyInvalid(b)
       THEN /\ sendRes' = SendError(400, "INVALID_REQUEST")
            /\ sendPc' = "done"
            /\ UNCHANGED <<cdpClient, fromAddress>>
       ELSE /\ cdpClient' = GetCdpClient(ctorOk)
            /\ IF ~cdpClient'
               THEN /\ sendRes' = SendError(503, "SERVICE_UNAVAILABLE")
                    /\ sendPc' = "done"
                    /\ UNCHANGED fromAddress
               ELSE IF ~acctOk
               THEN /\ sendRes' = SendError(500, "SEND_NFT_FAILED")
                    /\ sendPc' = "done"
                    /\ UNCHANGED fromAddress
               ELSE /\ fromAddress' = Address(b.name)
                    /\ sendPc' = "nftWrite"
                    /\ UNCHANGED sendRes
    /\ UNCHANGED <<cdpCreds, alchemyKey, cdpSuccess, transactionHash,
                   primaryOutcome, fallbackOutcome, broadcasts, receipts>>
    /\ UNCHANGED notSend

\* walletClient.writeContract(safeTransferFrom(from, to, BigInt(tokenId))).
\* The RPC URL is built with ALCHEMY_API_KEY || '': without the key the
\* endpoint rejects the request and nothing is sent.
NftWrite(write) ==
    /\ sendPc = "nftWrite"
    /\ write \in WriteOutcomes(body.to)
    /\ LET out == IF BigIntOk(body.tokenId) /\ alchemyKey THEN write
                  ELSE "throwBefore"
           tx  == Broadcast("viem", "erc721", NftChain(body.network))
       IN /\ broadcasts' = IF Sent(out) THEN Append(broadcasts, tx) ELSE broadcasts
          /\ IF out = "hash"
             THEN /\ transactionHash' = tx.hash
                  /\ sendPc' = "nftWait"
                  /\ UNCHANGED sendRes
             ELSE /\ sendRes' = SendError(500, "SEND_NFT_FAILED")
                  /\ sendPc' = "done"
                  /\ UNCHANGED transactionHash
    /\ UNCHANGED <<envVars, endpoint, body, cdpSuccess, fromAddress,
                   primaryOutcome, fallbackOutcome, receipts>>
    /\ UNCHANGED notSend

\* A handler that answers success without regard to the receipt.
NftRespondEarly(receiptOk, hash) == SendSuccess(hash, "")

\* await waitForTransactionReceipt throws into the catch block, or is
\* followed by sendSuccess
NftRespond(receiptOk, hash) ==
    IF receiptOk THEN SendSuccess(hash, "")
    ELSE SendError(500, "SEND_NFT_FAILED")

\* publicClient.waitForTransactionReceipt({ hash: txHash }), then sendSuccess
NftWait(receiptOk) ==
    /\ sendPc = "nftWait"
    /\ receipts' = IF receiptOk THEN receipts \cup {transactionHash} ELSE receipts
    /\ sendRes' = NftRespond(receiptOk, transactionHash)
    /\ sendPc' = "done"
    /\ UNCHANGED <<envVars, endpoint, body, cdpSuccess, transactionHash, fromAddress,
                   primaryOutcome, fallbackOutcome, broadcasts>>
    /\ UNCHANGED notSend

(***************************************************************************)
(* Specification of the transfer endpoints                                 *)
(***************************************************************************)
InitEnv ==
    /\ cdpClient = FALSE
    /\ cdpCreds \in BOOLEAN
    /\ alchemyKey \in BOOLEAN

InitSend ==
    /\ sendPc = "idle"
    /\ endpoint = ""
    /\ body = NoBody
    /\ cdpSuccess = FALSE
    /\ transactionHash = 0
    /\ fromAddress = Empty
    /\ primaryOutcome = "none"
    /\ fallbackOutcome = "none"
    /\ broadcasts = <<>>
    /\ receipts = {}
    /\ sendRes = NoRes

NextSend ==
    \/ \E b \in SendBodies, ctorOk \in BOOLEAN : SendReceive(b, ctorOk)
    \/ \E acctOk \in BOOLEAN, netOk \in BOOLEAN,
          xfer \in {"hash", "nohash", "throwBefore", "throwAfter"} :
            SendPrimary(acctOk, netOk, xfer)
    \/ \E acctOk \in BOOLEAN, send \in {"hash", "throwBefore", "throwAfter"} :
            SendFallback(acctOk, send)
    \/ \E b \in NftBodies, ctorOk \in BOOLEAN, acctOk \in BOOLEAN :
            NftReceive(b, ctorOk, acctOk)
    \/ \E write \in {"hash", "throwBefore", "throwAfter"} : NftWrite(write)
    \/ \E receiptOk \in BOOLEAN : NftWait(receiptOk)

(***************************************************************************)
(* Claims about the transfer endpoints                                     *)
(***************************************************************************)
SendDone == endpoint = "send" /\ sendPc = "done"

LastBroadcast == broadcasts[Len(broadcasts)]

\* C1 (as stated): whenever the primary custody transfer of a POST /wallet/send
\* request throws, the response is a success that carries the hash of the
\* fallback transaction and reports the fallback method.
C1_FallbackAlwaysSucceeds ==
    (SendDone /\ primaryOutcome = "threw") =>
        /\ sendRes.status = 200
        /\ sendRes.method = "viem-fallback"
        /\ Len(broadcasts) > 0
        /\ LastBroadcast.via = "viem"
        /\ sendRes.transactionHash = LastBroadcast.hash

\* C1 (amended): whenever the primary custody transfer of a POST /wallet/send
\* request throws, the viem fallback is attempted; if the fallback's send
\* returns a hash the response is a success carrying that hash with method
\* 'viem-fallback', and if the fallback throws the response is 500 SEND_FAILED.
C1_TransferFallback ==
    /\ (endpoint = "send" /\ primaryOutcome = "threw" /\ sendPc # "done")
          => sendPc = "fallback"
    /\ (SendDone /\ primaryOutcome = "threw") =>
          /\ fallbackOutcome \in {"hash", "threw"}
          /\ fallbackOutcome = "hash" =>
                /\ sendRes.status = 200
                /\ sendRes.method = "viem-fallback"
                /\ Len(broadcasts) > 0
                /\ LastBroadcast.via = "viem"
                /\ sendRes.transactionHash = LastBroadcast.hash
          /\ fallbackOutcome = "threw" =>
                /\ sendRes.status = 500
                /\ sendRes.code = "SEND_FAILED"

\* C1 witness: a request whose primary path threw and that was answered with
\* the fallback's hash.
C1_Witness ==
    /\ SendDone
    /\ primaryOutcome = "threw"
    /\ fallbackOutcome = "hash"
    /\ sendRes.status = 200
    /\ sendRes.method = "viem-fallback"

\* C2: POST /wallet/send answers SEND_FAILED only if the primary path failed
\* (threw or returned no hash) and the fallback was attempted and failed too.
C2_FailedOnlyIfBothPathsFailed ==
    (SendDone /\ sendRes.code = "SEND_FAILED") =>
        /\ primaryOutcome \in {"threw", "nohash"}
        /\ fallbackOutcome = "threw"

\* C3: within one POST /wallet/send request at most one transaction is
\* broadcast, over the primary and the fallback path together.
C3_AtMostOneBroadcast ==
    endpoint = "send" => Len(broadcasts) <= 1

\* C4: a transfer endpoint that answers with a failure has broadcast nothing,
\* and one that answers with success has broadcast exactly one transaction,
\* whose hash is the one returned.
C4_NeverPartiallyApplied ==
    (endpoint \in {"send", "send-nft"} /\ sendPc = "done") =>
        /\ sendRes.status # 200 => broadcasts = <<>>
        /\ sendRes.status = 200 =>
              /\ Len(broadcasts) = 1
              /\ broadcasts[1].hash = sendRes.transactionHash

\* C11 (as stated): whatever the viem fallback of POST /wallet/send sends is
\* a transfer of the asset that the custody transfer moves for the request's
\* token identifier (native for "eth", the USDC contract for "usdc", the
\* contract itself for a 0x address).
C11_FallbackMovesSameAsset ==
    \A i \in 1..Len(broadcasts) :
        (endpoint = "send" /\ broadcasts[i].via = "viem") =>
            /\ broadcasts[i].kind = PrimaryAsset(body.token).kind
            /\ FallbackAsset(body.token) = PrimaryAsset(body.token)

\* The request body is malformed: a field is missing, the amount is no
\* decimal integer string, or the recipient is no address
SendBodyMalformed(b) ==
    SendBodyInvalid(b) \/ ~BigIntOk(b.amount) \/ ~IsAddress(b.to)

\* C12 (as stated): a malformed POST /wallet/send request that reaches a
\* configured custody client is answered 400 INVALID_REQUEST, and neither
\* transfer path is attempted for it.
C12_MalformedInputRejected ==
    (SendDone /\ SendBodyMalformed(body) /\ sendRes.status # 503) =>
        /\ sendRes.status = 400
        /\ sendRes.code = "INVALID_REQUEST"
        /\ primaryOutcome = "none"
        /\ fallbackOutcome = "none"

\* C15 (as stated): with ALCHEMY_API_KEY missing, a POST /wallet/send request
\* that entered the fallback on a supported network, and a valid
\* POST /wallet/send-nft request, are answered 503 once the custody account
\* was obtained.
C15_MissingCredentials503 ==
    (/\ sendPc = "done"
     /\ ~alchemyKey
     /\ cdpClient
     /\ fromAddress # Empty
     /\ \/ endpoint = "send" /\ fallbackOutcome # "none" /\ body.network \in ChainMap
        \/ endpoint = "send-nft" /\ ~NftBodyInvalid(body))
    => sendRes.status = 503

\* C17: the method of a successful POST /wallet/send response is 'cdp-sdk'
\* exactly if the returned hash is the hash of the transaction the custody
\* transfer sent, and 'viem-fallback' exactly if it is the hash of the
\* transaction signed locally.
C17_MethodAccuracy ==
    (SendDone /\ sendRes.status = 200) =>
        \E i \in 1..Len(broadcasts) :
            /\ broadcasts[i].hash = sendRes.transactionHash
            /\ sendRes.method \in {"cdp-sdk", "viem-fallback"}
            /\ sendRes.method = "cdp-sdk" <=> broadcasts[i].via = "cdp-sdk"
            /\ sendRes.method = "viem-fallback" <=> broadcasts[i].via = "viem"

\* C17 witness: the custody transfer sent a transaction and then threw, the
\* fallback sent a second one, and the response carries the second hash.
C17_Witness ==
    /\ SendDone
    /\ sendRes.status = 200
    /\ Len(broadcasts) = 2
    /\ broadcasts[1].via = "cdp-sdk"
    /\ broadcasts[2].via = "viem"
    /\ sendRes.transactionHash = broadcasts[2].hash
    /\ sendRes.method = "viem-fallback"

\* C16: POST /wallet/send-nft never calls the custody transfer: whatever it
\* sends is signed locally (an ERC-721 safeTransferFrom through viem), and a
\* success response carries a hash whose transaction receipt was obtained
\* before the response.
C16_NftSignsLocallyAndWaits ==
    endpoint = "send-nft" =>
        /\ primaryOutcome = "none"
        /\ \A i \in 1..Len(broadcasts) :
              broadcasts[i].via = "viem" /\ broadcasts[i].kind = "erc721"
        /\ sendRes.status = 200 =>
              /\ sendRes.transactionHash \in receipts
              /\ \E i \in 1..Len(broadcasts) :
                    broadcasts[i].hash = sendRes.transactionHash

\* C16 witness: a send-nft request answered with success after its receipt.
C16_Witness ==
    /\ endpoint = "send-nft"
    /\ sendPc = "done"
    /\ sendRes.status = 200
    /\ Len(broadcasts) = 1
    /\ receipts = {sendRes.transactionHash}

(***************************************************************************)
(* POST /wallet and the custody service                                    *)
(*                                                                         *)
(* The handler makes one call, client.evm.getOrCreateAccount({ name }).    *)
(* The custody service keeps one account per name: getAccount answers the  *)
(* account of a name or "not found", createAccount creates it or answers   *)
(* "already exists", and getOrCreateAccount is get, then create, then get  *)
(* again when the create lost a race.  Each of the three is a round trip   *)
(* that other requests interleave with and that the service may reject.    *)
(***************************************************************************)
MaxRequests == 2
Requests    == 1..MaxRequests

OtherName   == <<"u", "2">>
WalletNames == {UserName, OtherName, Empty}

NoWalletRes == [status |-> 0, code |-> "", address |-> 0, detail |-> ""]

WalletError(status, code, detail) ==
    [status |-> status, code |-> code, address |-> 0, detail |-> detail]

WalletSuccess(address) ==
    [status |-> 200, code |-> "", address |-> address, detail |-> ""]

\* The custody call that creates the account whether or not it exists.
CreateAccountCall == "createAccount"

\* The custody call of the handler: client.evm.getOrCreateAccount
ProvisionCall == "getOrCreateAccount"

\* The addresses the custody service holds for a name
AddressesOf(name) ==
    {accounts[i].address : i \in {j \in DOMAIN accounts : accounts[j].name = name}}

\* Validation and getCdpClient, up to the await of the custody call.
WalletReceive(r, name, ctorOk) ==
    /\ wPc[r] = "idle"
    /\ wName' = [wName EXCEPT ![r] = name]
    /\ IF Falsy(name)
       THEN /\ wRes' = [wRes EXCEPT ![r] = WalletError(400, "INVALID_REQUEST", "")]
            /\ wPc' = [wPc EXCEPT ![r] = "done"]
            /\ UNCHANGED cdpClient
       ELSE /\ cdpClient' = GetCdpClient(ctorOk)
            /\ IF cdpClient'
               THEN /\ wPc' = [wPc EXCEPT ![r] =
                                  IF ProvisionCall = "getOrCreateAccount"
                                  THEN "get" ELSE "create"]
                    /\ UNCHANGED wRes
               ELSE /\ wRes' = [wRes EXCEPT ![r] =
                                  WalletError(503, "SERVICE_UNAVAILABLE", "")]
                    /\ wPc' = [wPc EXCEPT ![r] = "done"]
    /\ UNCHANGED <<cdpCreds, alchemyKey, accounts>>
    /\ UNCHANGED notWallet

\* The catch block: 500 WALLET_FAILED with the error's message
WalletFailed(r, detail) ==
    /\ wRes' = [wRes EXCEPT ![r] = WalletError(500, "WALLET_FAILED", detail)]
    /\ wPc' = [wPc EXCEPT ![r] = "done"]

\* sendSuccess(res, { address, accountName: name })
WalletReady(r, address) ==
    /\ wRes' = [wRes EXCEPT ![r] = WalletSuccess(address)]
    /\ wPc' = [wPc EXCEPT ![r] = "done"]

\* getAccount: the first round trip of getOrCreateAccount, and the one after
\* a create that found the account already there.
CustodyGet(r, serviceOk) ==
    /\ wPc[r] \in {"get", "reget"}
    /\ IF ~serviceOk
       THEN WalletFailed(r, "custody error")
       ELSE IF AddressesOf(wName[r]) # {}
       THEN \E a \in AddressesOf(wName[r]) : WalletReady(r, a)
       ELSE IF wPc[r] = "get"
       THEN wPc' = [wPc EXCEPT ![r] = "create"] /\ UNCHANGED wRes
       ELSE WalletFailed(r, "not found")
    /\ UNCHANGED <<envVars, accounts, wName>>
    /\ UNCHANGED notWallet

\* createAccount: creates the account of the name unless it exists.
CustodyCreate(r, serviceOk) ==
    /\ wPc[r] = "create"
    /\ IF ~serviceOk
       THEN WalletFailed(r, "custody error") /\ UNCHANGED accounts
       ELSE IF AddressesOf(wName[r]) # {}
       THEN /\ IF ProvisionCall = "getOrCreateAccount"
               THEN wPc' = [wPc EXCEPT ![r] = "reget"] /\ UNCHANGED wRes
               ELSE WalletFailed(r, "already exists")
            /\ UNCHANGED accounts
       ELSE /\ accounts' = Append(accounts,
                              [name |-> wName[r], address |-> Len(accounts) + 1])
            /\ WalletReady(r, Len(accounts) + 1)
    /\ UNCHANGED <<envVars, wName>>
    /\ UNCHANGED notWallet

InitWallet ==
    /\ accounts = <<>>
    /\ wPc = [r \in Requests |-> "idle"]
    /\ wName = [r \in Requests |-> Empty]
    /\ wRes = [r \in Requests |-> NoWalletRes]

NextWallet ==
    \/ \E r \in Requests, name \in WalletNames, ctorOk \in BOOLEAN :
            WalletReceive(r, name, ctorOk)
    \/ \E r \in Requests, serviceOk \in BOOLEAN : CustodyGet(r, serviceOk)
    \/ \E r \in Requests, serviceOk \in BOOLEAN : CustodyCreate(r, serviceOk)

\* C7: over any interleaving of POST /wallet calls, all successful responses
\* for one name carry the same address, the custody service holds at most one
\* address per name, and no call fails because the account already exists.
C7_IdempotentProvision ==
    /\ \A r1, r2 \in Requests :
          (wRes[r1].status = 200 /\ wRes[r2].status = 200 /\ wName[r1] = wName[r2])
              => wRes[r1].address = wRes[r2].address
    /\ \A n \in WalletNames : Cardinality(AddressesOf(n)) <= 1
    /\ \A r \in Requests : wRes[r].detail # "already exists"
    /\ \A r \in Requests :
          wRes[r].status = 200 => wRes[r].address \in AddressesOf(wName[r])

\* C7 witness: two calls with the same name raced (one lost the create and
\* looked the account up again) and both answered with an address.
C7_Witness ==
    \E r1, r2 \in Requests :
        /\ r1 # r2
        /\ wName[r1] = wName[r2]
        /\ wRes[r1].status = 200
        /\ wPc[r2] = "reget"

(***************************************************************************)
(* Numbers.  JavaScript numbers are modelled by integers plus NaN; a       *)
(* balance is modelled by the number the conversion from raw units yields. *)
(***************************************************************************)
NaN == -1

IsNaN(x) == x = NaN

Mul(a, b) == IF IsNaN(a) \/ IsNaN(b) THEN NaN ELSE a * b

Add(a, b) == IF IsNaN(a) \/ IsNaN(b) THEN NaN ELSE a + b

(***************************************************************************)
(* The upstream services as seen by GET /wallet/tokens                     *)
(***************************************************************************)
NetworkList == <<"base", "ethereum", "polygon">>

\* The contracts the indexers may report for the account:
\*   0xa  priced by CoinGecko           0xb  priced by DexScreener only
\*   0xu  priced by neither oracle      0xn  an NFT contract CoinGecko knows
\*   0xm  CoinGecko answers a price that is not a number
\*   0xz  a contract with balance 0
ContractList == <<"0xa", "0xb", "0xu", "0xn", "0xm", "0xz">>

\* pro-api.coingecko.com/api/v3/coins/{platform}/contract/{address}
CoinGecko(contract) ==
    CASE contract = "0xa" -> [found |-> TRUE, price |-> 2]
      [] contract = "0xn" -> [found |-> TRUE, price |-> 1]
      [] contract = "0xm" -> [found |-> TRUE, price |-> NaN]
      [] contract = "0xz" -> [found |-> TRUE, price |-> 2]
      [] OTHER            -> [found |-> FALSE, price |-> 0]

\* api.dexscreener.com/latest/dex/tokens/{address}, the pair of the chain
DexScreener(contract, network) ==
    IF contract = "0xb" THEN [found |-> TRUE, price |-> 3]
    ELSE [found |-> FALSE, price |-> 0]

\* getNFTsForContract: does the lookup return NFTs for the contract
ProbeSaysNft(contract) == contract = "0xn"

\* The balance of a contract, converted from raw units
AmountNum(contract) ==
    CASE contract = "0xa" -> 3
      [] contract = "0xb" -> 2
      [] contract = "0xu" -> 4
      [] contract = "0xn" -> 1
      [] contract = "0xm" -> 2
      [] contract = "0xz" -> 0
      [] OTHER            -> 5

\* getNativeTokenPrice(coingeckoId): 0 when the oracle has no answer
NativePrice(network) == IF network = "polygon" THEN 0 ELSE 7

\* The number of ERC-20 entries one network's balance list holds at most
MaxTokens == 1

\* The balance lists an indexer may answer: the sublists of contracts
RECURSIVE Sublists(_)
Sublists(list) ==
    IF list = <<>> THEN {<<>>}
    ELSE LET rest == Sublists(Tail(list))
         IN rest \cup {<<Head(list)>> \o l : l \in rest}

BalanceLists(contracts) == {l \in Sublists(contracts) : Len(l) <= MaxTokens}

Token(chain, contract, usdValue, usdPrice) ==
    [chain |-> chain, contractAddress |-> contract,
     usdValue |-> usdValue, usdPrice |-> usdPrice]

NoTokensRes == [status |-> 0, code |-> "", tokens |-> <<>>, totalUsdValue |-> 0]

TokensError(status, code) ==
    [status |-> status, code |-> code, tokens |-> <<>>, totalUsdValue |-> 0]

TokensSuccess(tokens, total) ==
    [status |-> 200, code |-> "", tokens |-> tokens, totalUsdValue |-> total]

NotFetched == [mode |-> "none", native |-> 0, list |-> <<>>]

(***************************************************************************)
(* GET /wallet/tokens/:name                                                *)
(***************************************************************************)
\* allTokens.push(...) and totalUsdValue += usdValue of part_000, with its
\* isNaN guards
PushGuarded(acc, network, contract, amountNum, usdPrice) ==
    LET usdValue == Mul(amountNum, usdPrice)
    IN [tokens |-> Append(acc.tokens,
                          Token(network, contract,
                                IF IsNaN(usdValue) THEN 0 ELSE usdValue,
                                IF IsNaN(usdPrice) THEN 0 ELSE usdPrice)),
        total  |-> IF ~IsNaN(usdValue) THEN Add(acc.total, usdValue)
                   ELSE acc.total]

\* The body of part_000's loop over tokenBalances for one entry
AlchemyErc20(acc, network, contract) ==
    IF AmountNum(contract) = 0 THEN acc
    ELSE LET tokenInfo == CoinGecko(contract)
             dexInfo   == DexScreener(contract, network)
         IN IF ~tokenInfo.found
            THEN IF dexInfo.found /\ dexInfo.price # 0
                 THEN PushGuarded(acc, network, contract, AmountNum(contract),
                                  dexInfo.price)
                 ELSE acc
            ELSE PushGuarded(acc, network, contract, AmountNum(contract),
                             tokenInfo.price)

RECURSIVE AlchemyLoop(_, _, _)
AlchemyLoop(acc, network, list) ==
    IF list = <<>> THEN acc
    ELSE AlchemyLoop(AlchemyErc20(acc, network, Head(list)), network, Tail(list))

\* Step 1 of part_000's network iteration: the native balance
AlchemyNative(acc, network, native) ==
    IF native > 0
    THEN PushGuarded(acc, network, "", native, NativePrice(network))
    ELSE acc

\* One iteration of part_000's for (const network of networks)
AlchemyNetwork(acc, network, mode, native, list) ==
    IF mode = "nativeThrows" THEN acc
    ELSE IF mode \in {"tokensNotOk", "tokensThrows"}
    THEN AlchemyNative(acc, network, native)
    ELSE AlchemyLoop(AlchemyNative(acc, network, native), network, list)

\* The answers of GET .../getNFTsForContract?contractAddress=..&limit=1:
\*   ok          status 200, body {nfts: [...]} with the NFTs of the contract
\*   notOk       a status outside 200..299
\*   throws      fetch rejects, or the body is not JSON and json() rejects
\*   bodyNull    status 200, body null: reading data.nfts throws a TypeError
\*   bodyNoNfts  status 200, body without an nfts field
\*   bodyString  status 200, body {nfts: "..."}: a non-empty string, not a list
ProbeResponses == {"ok", "notOk", "throws", "bodyNull", "bodyNoNfts", "bodyString"}

\* The try block of isNftContract after the fetch: whether it throws and
\* what it returns otherwise.  data.nfts && data.nfts.length > 0 is computed
\* on whatever the body holds: a non-empty string has a length above 0.
ProbeTry(kind, contract) ==
    CASE kind = "ok"         -> [thrown |-> FALSE, value |-> ProbeSaysNft(contract)]
      [] kind = "notOk"      -> [thrown |-> FALSE, value |-> FALSE]
      [] kind = "throws"     -> [thrown |-> TRUE,  value |-> FALSE]
      [] kind = "bodyNull"   -> [thrown |-> TRUE,  value |-> FALSE]
      [] kind = "bodyNoNfts" -> [thrown |-> FALSE, value |-> FALSE]
      [] kind = "bodyString" -> [thrown |-> FALSE, value |-> TRUE]

\* isNftContract(contractAddress, network) of index.ts
IsNftContract(contract, network) ==
    IF ~alchemyKey THEN FALSE
    ELSE IF network \notin Networks THEN FALSE
    ELSE LET result == ProbeTry(probe, contract)
         IN IF result.thrown THEN FALSE ELSE result.value

\* The body of index.ts's loop over balances for one entry; "" is a balance
\* without contract address
CdpBalance(acc, network, contract) ==
    IF contract # "" /\ IsNftContract(contract, network) THEN acc
    ELSE LET tokenInfo == CoinGecko(contract)
             dexInfo   == DexScreener(contract, network)
             usdPrice  == IF contract = "" THEN 0
                          ELSE IF tokenInfo.found THEN tokenInfo.price
                          ELSE IF dexInfo.found /\ dexInfo.price # 0
                          THEN dexInfo.price
                          ELSE 0
             usdValue  == Mul(AmountNum(contract), usdPrice)
         IN [tokens |-> Append(acc.tokens,
                               Token(network, contract, usdValue, usdPrice)),
             total  |-> Add(acc.total, usdValue)]

RECURSIVE CdpLoop(_, _, _)
CdpLoop(acc, network, list) ==
    IF list = <<>> THEN acc
    ELSE CdpLoop(CdpBalance(acc, network, Head(list)), network, Tail(list))

\* One iteration of index.ts's for (const network of networks)
CdpNetwork(acc, network, mode, list) ==
    IF mode = "throws" THEN acc ELSE CdpLoop(acc, network, list)

\* Validation, getCdpClient, getOrCreateAccount and (part_000) the Alchemy key
TokensReceive(impl, kind, ctorOk, acctOk) ==
    /\ tokPc = "idle"
    /\ tokImpl' = impl
    /\ kind = "" <=> impl = "alchemy"
    /\ probe' = kind
    /\ cdpClient' = GetCdpClient(ctorOk)
    /\ IF ~cdpClient'
       THEN tokRes' = TokensError(503, "SERVICE_UNAVAILABLE") /\ tokPc' = "done"
       ELSE IF ~acctOk
       THEN tokRes' = TokensError(500, "FETCH_TOKENS_FAILED") /\ tokPc' = "done"
       ELSE IF impl = "alchemy" /\ ~alchemyKey
       THEN tokRes' = TokensError(503, "SERVICE_UNAVAILABLE") /\ tokPc' = "done"
       ELSE tokPc' = "loop" /\ UNCHANGED tokRes
    /\ UNCHANGED <<cdpCreds, alchemyKey, tokIdx, fetched, allTokens, totalUsdValue>>
    /\ UNCHANGED notTokens

\* After the loop: part_000 replaces a NaN total by 0, index.ts sends it as is
TokensRespond(impl, tokens, total) ==
    TokensSuccess(tokens, IF impl = "alchemy" /\ IsNaN(total) THEN 0 ELSE total)

\* The state after one iteration of the loop that ended with acc; the
\* response follows the last iteration.
TokensIterate(acc, answer) ==
    /\ allTokens' = acc.tokens
    /\ totalUsdValue' = acc.total
    /\ fetched' = [fetched EXCEPT ![NetworkList[tokIdx]] = answer]
    /\ tokIdx' = tokIdx + 1
    /\ IF tokIdx = Len(NetworkList)
       THEN /\ tokRes' = TokensRespond(tokImpl, acc.tokens, acc.total)
            /\ tokPc' = "done"
       ELSE UNCHANGED <<tokRes, tokPc>>
    /\ UNCHANGED <<envVars, tokImpl, probe>>
    /\ UNCHANGED notTokens

AlchemyModes == {"ok", "nativeThrows", "tokensNotOk", "tokensThrows"}

\* part_000: eth_getBalance, alchemy_getTokenBalances and the ERC-20 loop of
\* one network.  What an answer does not deliver is recorded as absent.
TokensAlchemyStep(mode, native, list) ==
    /\ tokPc = "loop"
    /\ tokImpl = "alchemy"
    /\ mode = "nativeThrows" => native = 0
    /\ mode # "ok" => list = <<>>
    /\ TokensIterate(
          AlchemyNetwork([tokens |-> allTokens, total |-> totalUsdValue],
                         NetworkList[tokIdx], mode, native, list),
          [mode |-> mode, native |-> native, list |-> list])

CdpModes == {"ok", "throws"}

\* index.ts: account.listTokenBalances({ network }) and the loop over balances
TokensCdpStep(mode, list) ==
    /\ tokPc = "loop"
    /\ tokImpl = "cdp"
    /\ mode # "ok" => list = <<>>
    /\ TokensIterate(
          CdpNetwork([tokens |-> allTokens, total |-> totalUsdValue],
                     NetworkList[tokIdx], mode, list),
          [mode |-> mode, native |-> 0, list |-> list])

InitTokens ==
    /\ tokPc = "idle"
    /\ tokImpl = ""
    /\ probe = ""
    /\ tokIdx = 1
    /\ fetched = [n \in Networks |-> NotFetched]
    /\ allTokens = <<>>
    /\ totalUsdValue = 0
    /\ tokRes = NoTokensRes

NextTokens ==
    \/ \E impl \in {"alchemy", "cdp"}, kind \in ProbeResponses \cup {""},
          ctorOk \in BOOLEAN, acctOk \in BOOLEAN :
            TokensReceive(impl, kind, ctorOk, acctOk)
    \/ \E mode \in AlchemyModes, native \in {0, 5},
          list \in BalanceLists(ContractList) :
            TokensAlchemyStep(mode, native, list)
    \/ \E mode \in CdpModes, list \in BalanceLists(<<"">> \o ContractList) :
            TokensCdpStep(mode, list)

(***************************************************************************)
(* Claims about GET /wallet/tokens                                         *)
(***************************************************************************)
TokensOk == tokPc = "done" /\ tokRes.status = 200

\* The networks whose token-balance fetch threw
FailedNetworks ==
    {n \in Networks : fetched[n].mode \in {"tokensThrows", "throws"}}

\* JavaScript's sum of the usdValue fields, in list order
RECURSIVE SumUsd(_)
SumUsd(tokens) ==
    IF tokens = <<>> THEN 0
    ELSE Add(tokens[1].usdValue, SumUsd(Tail(tokens)))

\* JavaScript's ===  on numbers: NaN equals nothing
NumEq(a, b) == ~IsNaN(a) /\ ~IsNaN(b) /\ a = b

\* C5 (as stated): when the token-balance fetch of a network throws, the
\* successful response lists no token of that network and its totalUsdValue
\* is the sum over the tokens of the other networks.
C5_FailedNetworkContributesNothing ==
    TokensOk =>
        /\ \A i \in 1..Len(tokRes.tokens) :
              tokRes.tokens[i].chain \notin FailedNetworks
        /\ tokRes.totalUsdValue =
              SumUsd(SelectSeq(tokRes.tokens,
                               LAMBDA t : t.chain \notin FailedNetworks))

\* Neither CoinGecko nor DexScreener has a price for the contract
Unpriced(contract, network) ==
    /\ ~CoinGecko(contract).found
    /\ ~(DexScreener(contract, network).found
         /\ DexScreener(contract, network).price # 0)

\* C6 (as stated): a held fungible token with non-zero balance that neither
\* price source prices is listed in the response with usdPrice 0 and
\* usdValue 0.
C6_ZeroPriceDegradation ==
    TokensOk =>
        \A n \in Networks :
            \A k \in 1..Len(fetched[n].list) :
                LET contract == fetched[n].list[k]
                IN (/\ fetched[n].mode = "ok"
                    /\ contract # ""
                    /\ AmountNum(contract) > 0
                    /\ ~ProbeSaysNft(contract)
                    /\ Unpriced(contract, n))
                   => \E i \in 1..Len(tokRes.tokens) :
                         tokRes.tokens[i] = Token(n, contract, 0, 0)

\* C8 (as stated): with the Alchemy key configured, a contract for which the
\* NFT probe returns NFTs never appears in the tokens of a successful
\* response.
C8_NftExclusion ==
    (TokensOk /\ alchemyKey /\ probe \in {"", "ok"}) =>
        \A i \in 1..Len(tokRes.tokens) :
            ~ProbeSaysNft(tokRes.tokens[i].contractAddress)

\* C9 (as stated): in every successful response totalUsdValue equals the sum
\* of the usdValue fields of the listed tokens.
C9_TotalIsSumOfListed ==
    TokensOk => NumEq(tokRes.totalUsdValue, SumUsd(tokRes.tokens))

(***************************************************************************)
(* GET /wallet/history/:name                                               *)
(***************************************************************************)
MaxTransfers == 2

\* tx.metadata.blockTimestamp as Alchemy sends it: an ISO 8601 string, or
\* nothing ("")
BlockTimestamps == {"", "1970-01-01T00:00:01Z", "1970-01-01T00:00:02Z"}

\* new Date(blockTimestamp).getTime(): milliseconds since the epoch
GetTime(blockTimestamp) ==
    CASE blockTimestamp = "1970-01-01T00:00:01Z" -> 1000
      [] blockTimestamp = "1970-01-01T00:00:02Z" -> 2000

\* const timestamp = tx.metadata?.blockTimestamp ? ... : Date.now()
Timestamp(blockTimestamp, now) ==
    IF blockTimestamp # "" THEN GetTime(blockTimestamp) ELSE now

\* The answers of alchemy_getAssetTransfers: result.transfers, by their
\* block timestamps
TransferLists ==
    UNION {[1..k -> BlockTimestamps] : k \in 0..MaxTransfers}

\* The record pushed for the k-th transfer of a network's answer; the
\* transfer's hash is its place in the answer
Transaction(network, k, blockTimestamp, now) ==
    [chain |-> network, hash |-> k,
     timestamp |-> Timestamp(blockTimestamp, now)]

\* for (const tx of transfers) allTransactions.push({...})
PushTransfers(network, transfers, now) ==
    [k \in 1..Len(transfers) |-> Transaction(network, k, transfers[k], now)]

\* The comparator handed to sort, with the arguments in the other order
CompareAscending(a, b) == a.timestamp - b.timestamp

\* The comparator handed to allTransactions.sort
Compare(a, b) == b.timestamp - a.timestamp

\* Array.prototype.sort is stable: x, which followed every element of the
\* sorted prefix s, goes before the first element that compares after it
RECURSIVE InsertSorted(_, _)
InsertSorted(x, s) ==
    IF s = <<>> THEN <<x>>
    ELSE IF Compare(Head(s), x) > 0 THEN <<x>> \o s
    ELSE <<Head(s)>> \o InsertSorted(x, Tail(s))

RECURSIVE Sort(_)
Sort(s) ==
    IF s = <<>> THEN s
    ELSE InsertSorted(s[Len(s)], Sort(SubSeq(s, 1, Len(s) - 1)))

NoHistoryRes == [status |-> 0, code |-> "", transactions |-> <<>>]
HistoryError(status, code) ==
    [status |-> status, code |-> code, transactions |-> <<>>]
HistorySuccess(transactions) ==
    [status |-> 200, code |-> "", transactions |-> transactions]

HistoryNotFetched == [mode |-> "none", transfers |-> <<>>, now |-> 0]

\* getCdpClient, the Alchemy key and getOrCreateAccount
HistoryReceive(ctorOk, acctOk) ==
    /\ histPc = "idle"
    /\ cdpClient' = GetCdpClient(ctorOk)
    /\ IF ~cdpClient'
       THEN histRes' = HistoryError(503, "SERVICE_UNAVAILABLE") /\ histPc' = "done"
       ELSE IF ~alchemyKey
       THEN histRes' = HistoryError(503, "SERVICE_UNAVAILABLE") /\ histPc' = "done"
       ELSE IF ~acctOk
       THEN histRes' = HistoryError(500, "FETCH_HISTORY_FAILED") /\ histPc' = "done"
       ELSE histPc' = "loop" /\ UNCHANGED histRes
    /\ UNCHANGED <<cdpCreds, alchemyKey, histIdx, histNow, histFetched,
                   allTransactions>>
    /\ UNCHANGED notHistory

HistoryModes == {"ok", "notOk", "throws"}

\* One iteration of for (const network of networks); tick is the time that
\* passed since the clock was last read.  The sort and the response follow
\* the last iteration.
HistoryStep(mode, transfers, tick) ==
    /\ histPc = "loop"
    /\ mode # "ok" => transfers = <<>>
    /\ histIdx = 1 => tick = 0
    /\ histNow' = histNow + tick
    /\ histFetched' = [histFetched EXCEPT ![NetworkList[histIdx]] =
                          [mode |-> mode, transfers |-> transfers,
                           now |-> histNow']]
    /\ LET pushed == IF mode = "ok"
                     THEN allTransactions
                          \o PushTransfers(NetworkList[histIdx], transfers,
                                           histNow')
                     ELSE allTransactions
       IN IF histIdx = Len(NetworkList)
          THEN /\ allTransactions' = Sort(pushed)
               /\ histRes' = HistorySuccess(allTransactions')
               /\ histPc' = "done"
          ELSE /\ allTransactions' = pushed
               /\ UNCHANGED <<histRes, histPc>>
    /\ histIdx' = histIdx + 1
    /\ UNCHANGED envVars
    /\ UNCHANGED notHistory

InitHistory ==
    /\ histPc = "idle"
    /\ histIdx = 1
    /\ histNow = 3000
    /\ histFetched = [n \in Networks |-> HistoryNotFetched]
    /\ allTransactions = <<>>
    /\ histRes = NoHistoryRes

NextHistory ==
    \/ \E ctorOk \in BOOLEAN, acctOk \in BOOLEAN : HistoryReceive(ctorOk, acctOk)
    \/ \E mode \in HistoryModes, transfers \in TransferLists, tick \in {0, 1} :
            HistoryStep(mode, transfers, tick)

(***************************************************************************)
(* Claims about GET /wallet/history                                        *)
(***************************************************************************)
HistoryOk == histPc = "done" /\ histRes.status = 200

\* The records of the networks that were fetched successfully, in the order
\* of the networks
RECURSIVE FetchedRecords(_)
FetchedRecords(i) ==
    IF i > Len(NetworkList) THEN <<>>
    ELSE (IF histFetched[NetworkList[i]].mode = "ok"
          THEN PushTransfers(NetworkList[i],
                             histFetched[NetworkList[i]].transfers,
                             histFetched[NetworkList[i]].now)
          ELSE <<>>) \o FetchedRecords(i + 1)

Occurrences(r, s) == Cardinality({i \in 1..Len(s) : s[i] = r})

SameRecords(s, t) ==
    /\ Len(s) = Len(t)
    /\ \A i \in 1..Len(s) : Occurrences(s[i], s) = Occurrences(s[i], t)

NonIncreasing(s) ==
    \A i \in 1..(Len(s) - 1) : s[i].timestamp >= s[i + 1].timestamp

MaxNfts == 2

\* nft.raw.metadata.image as the token's metadata document has it: an https
\* URL, an ipfs:// URI, or a value that is no string (metadata is whatever
\* JSON the token URI serves)
Images == {"https://a", "ipfs://b", "object"}

\* imageUrl.startsWith is no function when the image is not a string
ImageThrows(image) == image = "object"

\* imageUrl.replace('ipfs://', 'https://ipfs.io/ipfs/')
ImageUrl(image) ==
    IF image = "ipfs://b" THEN "https://ipfs.io/ipfs/b" ELSE image

\* data.ownedNfts, by the images of the tokens' metadata
OwnedNftLists == UNION {[1..k -> Images] : k \in 0..MaxNfts}

\* The record pushed for the k-th owned NFT of a network's answer
Nft(network, k, image) ==
    [chain |-> network, tokenId |-> k, image |-> ImageUrl(image)]

\* for (const nft of nfts): the records pushed before the loop ends or an
\* element throws
RECURSIVE PushNfts(_, _, _)
PushNfts(network, nfts, k) ==
    IF k > Len(nfts) \/ ImageThrows(nfts[k]) THEN <<>>
    ELSE <<Nft(network, k, nfts[k])>> \o PushNfts(network, nfts, k + 1)

NoNftsRes == [status |-> 0, code |-> "", nfts |-> <<>>]
NftsError(status, code) == [status |-> status, code |-> code, nfts |-> <<>>]
NftsSuccess(nfts) == [status |-> 200, code |-> "", nfts |-> nfts]

NftsNotFetched == [mode |-> "none", nfts |-> <<>>]

\* getCdpClient, the Alchemy key and getOrCreateAccount
NftsReceive(ctorOk, acctOk) ==
    /\ nftPc = "idle"
    /\ cdpClient' = GetCdpClient(ctorOk)
    /\ IF ~cdpClient'
       THEN nftRes' = NftsError(503, "SERVICE_UNAVAILABLE") /\ nftPc' = "done"
       ELSE IF ~alchemyKey
       THEN nftRes' = NftsError(503, "SERVICE_UNAVAILABLE") /\ nftPc' = "done"
       ELSE IF ~acctOk
       THEN nftRes' = NftsError(500, "FETCH_NFTS_FAILED") /\ nftPc' = "done"
       ELSE nftPc' = "loop" /\ UNCHANGED nftRes
    /\ UNCHANGED <<cdpCreds, alchemyKey, nftIdx, nftFetched, allNfts>>
    /\ UNCHANGED notNfts

NftsModes == {"ok", "notOk", "throws"}

\* One iteration of for (const network of networks); the response follows
\* the last iteration.
NftsStep(mode, nfts) ==
    /\ nftPc = "loop"
    /\ mode # "ok" => nfts = <<>>
    /\ nftFetched' = [nftFetched EXCEPT ![NetworkList[nftIdx]] =
                         [mode |-> mode, nfts |-> nfts]]
    /\ allNfts' = IF mode = "ok"
                  THEN allNfts \o PushNfts(NetworkList[nftIdx], nfts, 1)
                  ELSE allNfts
    /\ IF nftIdx = Len(NetworkList)
       THEN nftRes' = NftsSuccess(allNfts') /\ nftPc' = "done"
       ELSE UNCHANGED <<nftRes, nftPc>>
    /\ nftIdx' = nftIdx + 1
    /\ UNCHANGED envVars
    /\ UNCHANGED notNfts

InitNfts ==
    /\ nftPc = "idle"
    /\ nftIdx = 1
    /\ nftFetched = [n \in Networks |-> NftsNotFetched]
    /\ allNfts = <<>>
    /\ nftRes = NoNftsRes

NextNfts ==
    \/ \E ctorOk \in BOOLEAN, acctOk \in BOOLEAN : NftsReceive(ctorOk, acctOk)
    \/ \E mode \in NftsModes, nfts \in OwnedNftLists : NftsStep(mode, nfts)

(***************************************************************************)
(* Claims about the aggregation endpoints                                  *)
(***************************************************************************)
\* C13 (as stated): when the fetch of every network fails, GET /wallet/history
\* answers 500 FETCH_HISTORY_FAILED.
C13_TotalFailureIs500 ==
    (/\ histPc = "done"
     /\ \A n \in Networks : histFetched[n].mode \in {"notOk", "throws"})
    => (histRes.status = 500 /\ histRes.code = "FETCH_HISTORY_FAILED")

NftsOk == nftPc = "done" /\ nftRes.status = 200

\* The iteration of a network failed: its fetch threw or answered non-OK, or
\* the processing of its answer threw
NftsNetworkFailed(n) ==
    \/ nftFetched[n].mode \in {"notOk", "throws"}
    \/ \E k \in 1..Len(nftFetched[n].nfts) : ImageThrows(nftFetched[n].nfts[k])

\* Every record of the networks that did not fail, in network order
RECURSIVE OwnedRecords(_)
OwnedRecords(i) ==
    IF i > Len(NetworkList) THEN <<>>
    ELSE (IF ~NftsNetworkFailed(NetworkList[i])
          THEN [k \in 1..Len(nftFetched[NetworkList[i]].nfts) |->
                   Nft(NetworkList[i], k, nftFetched[NetworkList[i]].nfts[k])]
          ELSE <<>>) \o OwnedRecords(i + 1)

\* C14 (as stated): whatever networks fail, a GET /wallet/nfts request that
\* reached the loop is answered with success, and the response holds exactly
\* the records of the networks that did not fail.
C14_PerNetworkIsolation ==
    (nftPc = "done" /\ \E n \in Networks : nftFetched[n].mode # "none") =>
        /\ nftRes.status = 200
        /\ nftRes.nfts = OwnedRecords(1)

(***************************************************************************)
(* Price lookups: getNativeTokenPrice, getTokenInfo,                       *)
(* getTokenInfoFromDexScreener and their use in the balance loop           *)
(***************************************************************************)
MaxPairs == 2
MaxLookups == 2

\* The outcome of a lookup's try block that throws
Thrown == [result |-> "thrown", price |-> 0, chainId |-> ""]

\* return null
Null == [result |-> "null", price |-> 0, chainId |-> ""]

\* A returned object, with its price and (DexScreener) the chain of its pair
Info(price, chainId) == [result |-> "info", price |-> price, chainId |-> chainId]

\* A lookup without catch block.
Rethrow(r, onThrow) == r

\* try { ... } catch (err) { logger.warn(...); onThrow }
Catch(r, onThrow) == IF r = Thrown THEN onThrow ELSE r

\* What fetch and response.json() can do: fetch throws, the status is not
\* OK, the body is no JSON, the body is JSON null, or the body is an object
ResponseKinds == {"fetchThrows", "notOk", "badJson", "nullBody", "ok"}

\* market_data.current_price.usd / data[coingeckoId].usd: absent, 0 or a price
UsdValues == {<<>>, <<0>>, <<2>>}

CoinGeckoResponses ==
    [kind : ResponseKinds \ {"ok"}, usd : {<<>>}]
        \cup [kind : {"ok"}, usd : UsdValues]

\* x?.usd || 0
UsdOrZero(usd) == IF usd = <<>> THEN 0 ELSE usd[1]

\* The try block of getTokenInfo and of getNativeTokenPrice: a non-OK status
\* falls through to the return after the try
CoinGeckoTry(resp) ==
    CASE resp.kind \in {"fetchThrows", "badJson", "nullBody"} -> Thrown
      [] resp.kind = "notOk" -> Null
      [] resp.kind = "ok" -> Info(UsdOrZero(resp.usd), "")

\* getTokenInfo(contractAddress, platform)
GetTokenInfo(key, resp) ==
    IF ~key THEN Null ELSE Catch(CoinGeckoTry(resp), Null)

\* getNativeTokenPrice(coingeckoId): return 0 where getTokenInfo returns null
GetNativeTokenPrice(key, resp) ==
    IF ~key THEN Info(0, "")
    ELSE LET r == Catch(CoinGeckoTry(resp), Null)
         IN IF r = Null THEN Info(0, "") ELSE r

\* pair.priceUsd as DexScreener sends it
PriceStrings == {"3", "abc", ""}

\* parseFloat(pair.priceUsd)
ParseFloat(str) == IF str = "3" THEN 3 ELSE NaN

\* parseFloat(...) || undefined; 0 stands for undefined
OrUndefined(x) == IF IsNaN(x) THEN 0 ELSE x

DexChains == {"base", "solana"}

Pairs == [chainId : DexChains, priceUsd : PriceStrings]

PairLists == UNION {[1..k -> Pairs] : k \in 0..MaxPairs}

DexResponses ==
    [kind : ResponseKinds \ {"ok", "nullBody"}, pairs : {<<>>}]
        \cup [kind : {"ok"}, pairs : PairLists]

\* A lookup that takes the first pair, whatever its chain.
FindFirst(pairs, chainId) == IF pairs = <<>> THEN 0 ELSE 1

\* pairs.find((p) => p.chainId === chainId): the index of the first pair of
\* the chain, 0 if there is none
FindPair(pairs, chainId) ==
    IF \E i \in 1..Len(pairs) : pairs[i].chainId = chainId
    THEN CHOOSE i \in 1..Len(pairs) :
            /\ pairs[i].chainId = chainId
            /\ \A j \in 1..(i - 1) : pairs[j].chainId # chainId
    ELSE 0

\* The try block of getTokenInfoFromDexScreener
DexScreenerTry(resp, chainId) ==
    CASE resp.kind \in {"fetchThrows", "badJson"} -> Thrown
      [] resp.kind = "notOk" -> Null
      [] resp.kind = "ok" ->
            LET i == FindPair(resp.pairs, chainId)
            IN IF i = 0 THEN Null
               ELSE Info(OrUndefined(ParseFloat(resp.pairs[i].priceUsd)),
                         resp.pairs[i].chainId)

\* getTokenInfoFromDexScreener(address, chainId)
GetTokenInfoFromDexScreener(resp, chainId) ==
    Catch(DexScreenerTry(resp, chainId), Null)

NoPrice == [source |-> "none", price |-> 0, chainId |-> ""]
Priced(source, price, chainId) ==
    [source |-> source, price |-> price, chainId |-> chainId]

PriceAssets == {"native", "0xa"}

\* A call of a lookup function and what its upstream answered
Call(fn, kind, pairs) == [fn |-> fn, kind |-> kind, pairs |-> pairs]

\* Without COINGECKO_API_KEY the CoinGecko lookups return before any fetch
KeyedKind(resp) == IF coingeckoKey THEN resp.kind ELSE "noKey"

\* The loop reaches the next balance: a native balance or a contract's
PriceStart(asset, network) ==
    /\ pricePc \in {"idle", "done"}
    /\ priceCount < MaxLookups
    /\ priceAsset' = asset
    /\ priceNetwork' = network
    /\ priceCalls' = <<>>
    /\ priceOut' = NoPrice
    /\ pricePc' = IF asset = "native" THEN "native" ELSE "primary"
    /\ UNCHANGED <<coingeckoKey, priceCount>>
    /\ UNCHANGED notPrice

\* The state after a lookup that returned r (or threw into the loop)
PriceReturn(r, next) ==
    IF r = Thrown THEN pricePc' = "threw" /\ UNCHANGED priceCount
    ELSE IF next = "secondary" THEN pricePc' = "secondary" /\ UNCHANGED priceCount
    ELSE pricePc' = "done" /\ priceCount' = priceCount + 1

\* const usdPrice = await getNativeTokenPrice(nativeInfo.coingeckoId)
PriceNative(resp) ==
    /\ pricePc = "native"
    /\ LET usdPrice == GetNativeTokenPrice(coingeckoKey, resp)
       IN /\ priceCalls' = Append(priceCalls,
                                  Call("getNativeTokenPrice", KeyedKind(resp), <<>>))
          /\ priceOut' = IF usdPrice.result = "info"
                         THEN Priced("native", usdPrice.price, "")
                         ELSE priceOut
          /\ PriceReturn(usdPrice, "done")
    /\ UNCHANGED <<coingeckoKey, priceAsset, priceNetwork>>
    /\ UNCHANGED notPrice

\* let tokenInfo = await getTokenInfo(contractAddress, platformMap[network]);
\* if (!tokenInfo) the DexScreener lookup follows
PricePrimary(resp) ==
    /\ pricePc = "primary"
    /\ LET tokenInfo == GetTokenInfo(coingeckoKey, resp)
       IN /\ priceCalls' = Append(priceCalls,
                                  Call("getTokenInfo", KeyedKind(resp), <<>>))
          /\ priceOut' = IF tokenInfo.result = "info"
                         THEN Priced("primary", tokenInfo.price, "")
                         ELSE priceOut
          /\ PriceReturn(tokenInfo,
                         IF tokenInfo = Null THEN "secondary" ELSE "done")
    /\ UNCHANGED <<coingeckoKey, priceAsset, priceNetwork>>
    /\ UNCHANGED notPrice

\* const dexInfo = await getTokenInfoFromDexScreener(contractAddress, network);
\* if (dexInfo?.price) usdPrice = dexInfo.price
PriceSecondary(resp) ==
    /\ pricePc = "secondary"
    /\ LET dexInfo == GetTokenInfoFromDexScreener(resp, priceNetwork)
       IN /\ priceCalls' = Append(priceCalls,
                                  Call("getTokenInfoFromDexScreener", resp.kind,
                                       resp.pairs))
          /\ priceOut' = IF dexInfo.result = "info" /\ dexInfo.price # 0
                         THEN Priced("secondary", dexInfo.price, dexInfo.chainId)
                         ELSE priceOut
          /\ PriceReturn(dexInfo, "done")
    /\ UNCHANGED <<coingeckoKey, priceAsset, priceNetwork>>
    /\ UNCHANGED notPrice

InitPrice ==
    /\ coingeckoKey \in BOOLEAN
    /\ pricePc = "idle"
    /\ priceAsset = ""
    /\ priceNetwork = ""
    /\ priceCalls = <<>>
    /\ priceOut = NoPrice
    /\ priceCount = 0

NextPrice ==
    \/ \E asset \in PriceAssets, network \in {"base", "polygon"} :
            PriceStart(asset, network)
    \/ \E resp \in CoinGeckoResponses : PriceNative(resp)
    \/ \E resp \in CoinGeckoResponses : PricePrimary(resp)
    \/ \E resp \in DexResponses : PriceSecondary(resp)

(***************************************************************************)
(* Claims about the price lookups                                          *)
(***************************************************************************)
\* C18: no price lookup throws into the balance loop: whatever the key, the
\* status, the body or the fetch do, each lookup returns, the asset ends with
\* a price that is a number (0 when no lookup delivered one), and the loop
\* goes on to the next asset.
C18_PriceResolutionNeverThrows ==
    /\ pricePc # "threw"
    /\ pricePc = "done" =>
          /\ priceOut.price >= 0
          /\ priceOut.source = "none" => priceOut.price = 0
          /\ priceCount > 0
    /\ (pricePc = "done" /\ \A i \in 1..Len(priceCalls) : priceCalls[i].kind # "ok")
          => priceOut.price = 0

\* C18 witness: a contract whose CoinGecko fetch threw and whose DexScreener
\* body was no JSON ended with price 0, and the loop priced a second asset.
C18_Witness ==
    /\ pricePc = "done"
    /\ priceCount = 2
    /\ priceAsset = "0xa"
    /\ Len(priceCalls) = 2
    /\ priceCalls[1].kind = "fetchThrows"
    /\ priceCalls[2].kind = "badJson"
    /\ priceOut = NoPrice

\* C19: for a contract DexScreener is looked up exactly if getTokenInfo was
\* looked up first and returned nothing, and a DexScreener price comes from a
\* pair whose chainId is the requested network.
C19_PriceFallbackOrder ==
    /\ \A i \in 1..Len(priceCalls) :
          priceCalls[i].fn = "getTokenInfoFromDexScreener" =>
              (i = 2 /\ priceCalls[1].fn = "getTokenInfo")
    /\ (pricePc = "done" /\ priceAsset # "native") =>
          /\ priceCalls[1].fn = "getTokenInfo"
          /\ (Len(priceCalls) = 2) <=> (priceCalls[1].kind # "ok")
    /\ priceOut.source = "secondary" =>
          /\ priceOut.chainId = priceNetwork
          /\ priceCalls[1].kind # "ok"

\* C19 witness: CoinGecko missed, DexScreener answered a pair of another
\* chain before the pair of the requested network, and the latter's price
\* was taken.
C19_Witness ==
    /\ pricePc = "done"
    /\ priceNetwork = "base"
    /\ Len(priceCalls) = 2
    /\ priceCalls[1].kind = "notOk"
    /\ Len(priceCalls[2].pairs) = 2
    /\ priceCalls[2].pairs[1].chainId = "solana"
    /\ priceCalls[2].pairs[1].priceUsd = "3"
    /\ priceCalls[2].pairs[2].chainId = "base"
    /\ priceOut = Priced("secondary", 3, "base")

(***************************************************************************)
(* Raw balance to number: safeBalanceToNumber (part_000) and amountNum     *)
(* (index.ts).  A JavaScript number is a binary floating-point value; here *)
(* it has MantissaBits significant bits instead of 53, and is written as a *)
(* fraction num/den.                                                       *)
(***************************************************************************)
MantissaBits == 7
MaxHexDigits == 2
MaxDecimals  == 2

RECURSIVE Pow(_, _)
Pow(b, k) == IF k = 0 THEN 1 ELSE b * Pow(b, k - 1)

Fraction(num, den) == [num |-> num, den |-> den]

FractionEq(a, b) == a.num * b.den = b.num * a.den

\* Binary exponents of the numbers that occur
Exponents == -18..8

\* num/den divided by 2^e, as a fraction
Scaled(num, den, e) ==
    IF e < 0 THEN Fraction(num * Pow(2, -e), den)
    ELSE Fraction(num, den * Pow(2, e))

\* 2^(MantissaBits-1) <= (num/den) / 2^e < 2^MantissaBits
InBinade(num, den, e) ==
    IF e < 0
    THEN /\ num >= (Pow(2, MantissaBits - 1) * den + Pow(2, -e) - 1) \div Pow(2, -e)
         /\ num <= (Pow(2, MantissaBits) * den - 1) \div Pow(2, -e)
    ELSE /\ Pow(2, MantissaBits - 1) * den * Pow(2, e) <= num
         /\ num < Pow(2, MantissaBits) * den * Pow(2, e)

\* Round to the nearest integer, ties to even
RoundHalfEven(x) ==
    LET q == x.num \div x.den
        r == x.num % x.den
    IN IF 2 * r < x.den THEN q
       ELSE IF 2 * r > x.den THEN q + 1
       ELSE IF q % 2 = 0 THEN q ELSE q + 1

\* The floating-point number nearest to num/den
Float(num, den) ==
    IF num = 0 THEN Fraction(0, 1)
    ELSE LET e == CHOOSE k \in Exponents : InBinade(num, den, k)
             m == RoundHalfEven(Scaled(num, den, e))
         IN IF e < 0 THEN Fraction(m, Pow(2, -e)) ELSE Fraction(m * Pow(2, e), 1)

\* a / b of two numbers
FloatDiv(a, b) == Float(a.num * b.den, a.den * b.num)

\* BigInt(balanceHex): the value of the hexadecimal digits
RECURSIVE HexValue(_)
HexValue(hex) ==
    IF hex = <<>> THEN 0
    ELSE 16 * HexValue(SubSeq(hex, 1, Len(hex) - 1)) + hex[Len(hex)]

\* balance.toString(): the decimal digits of a BigInt
RECURSIVE DecDigits(_)
DecDigits(n) ==
    IF n < 10 THEN <<n>> ELSE Append(DecDigits(n \div 10), n % 10)

\* The integer a string of decimal digits denotes
RECURSIVE DecValue(_)
DecValue(digits) ==
    IF digits = <<>> THEN 0
    ELSE 10 * DecValue(SubSeq(digits, 1, Len(digits) - 1)) + digits[Len(digits)]

\* '0'.repeat(n)
Zeros(n) == [i \in 1..n |-> 0]

\* parseFloat(`${intPart}.${fracPart}`)
ParseFloatParts(intPart, fracPart) ==
    Float(DecValue(intPart \o fracPart), Pow(10, Len(fracPart)))

\* safeBalanceToNumber(balanceHex, decimals) of part_000
SafeBalanceToNumber(balanceHex, decimals) ==
    LET balanceStr   == DecDigits(HexValue(balanceHex))
        decimalPoint == Len(balanceStr) - decimals
    IN IF decimalPoint <= 0
       THEN ParseFloatParts(<<0>>, Zeros(-decimalPoint) \o balanceStr)
       ELSE ParseFloatParts(SubSeq(balanceStr, 1, decimalPoint),
                            SubSeq(balanceStr, decimalPoint + 1, Len(balanceStr)))

\* parseFloat(amountRaw) / Math.pow(10, decimals) of index.ts
CdpAmountNum(amount, decimals) ==
    FloatDiv(ParseFloatParts(DecDigits(amount), <<>>),
             Float(Pow(10, decimals), 1))

\* The hexadecimal digits the balances are written with (1, 0xa and 0x64
\* are 10^0, 10^1 and 10^2)
HexDigits == {0, 1, 4, 6, 8, 10, 15}

RawBalances == UNION {[1..k -> HexDigits] : k \in 1..MaxHexDigits}

\* part_000: const amountNum = safeBalanceToNumber(tokenBalanceHex, decimals)
BalanceAlchemy(balanceHex, decimals) ==
    /\ balImpl = ""
    /\ balImpl' = "alchemy"
    /\ balRaw' = balanceHex
    /\ balDecimals' = decimals
    /\ balOut' = SafeBalanceToNumber(balanceHex, decimals)
    /\ UNCHANGED notBalance

\* index.ts: const amountNum = parseFloat(amountRaw) / Math.pow(10, decimals),
\* for decimals that are not replaced by the default
BalanceCdp(amount, decimals) ==
    /\ balImpl = ""
    /\ decimals > 0
    /\ balImpl' = "cdp"
    /\ balRaw' = amount
    /\ balDecimals' = decimals
    /\ balOut' = CdpAmountNum(HexValue(amount), decimals)
    /\ UNCHANGED notBalance

InitBalance ==
    /\ balImpl = ""
    /\ balRaw = <<>>
    /\ balDecimals = 0
    /\ balOut = Fraction(0, 1)

NextBalance ==
    \/ \E balanceHex \in RawBalances, decimals \in 0..MaxDecimals :
            BalanceAlchemy(balanceHex, decimals)
    \/ \E amount \in RawBalances, decimals \in 0..MaxDecimals :
            BalanceCdp(amount, decimals)

(***************************************************************************)
(* Claims about the conversion of balances                                 *)
(***************************************************************************)
\* C20 (as stated): for every raw balance r and decimals d the amount is the
\* number got by placing the decimal point in the decimal string of r, i.e.
\* the number nearest to r / 10^d, and r = 10^d gives 1.
C20_DecimalPointPlacement ==
    balImpl # "" =>
        /\ FractionEq(balOut, Float(HexValue(balRaw), Pow(10, balDecimals)))
        /\ HexValue(balRaw) = Pow(10, balDecimals) => FractionEq(balOut, Fraction(1, 1))

(***************************************************************************)
(* Claims about the error codes of the endpoints                           *)
(***************************************************************************)
\* C21 (as stated): every failure response carries a code of the endpoint's
\* documented set: POST /wallet INVALID_REQUEST or SERVICE_UNAVAILABLE,
\* POST /wallet/send INVALID_REQUEST or SEND_FAILED, POST /wallet/send-nft
\* INVALID_REQUEST or SEND_NFT_FAILED, the GET endpoints SERVICE_UNAVAILABLE
\* or their own FETCH_*_FAILED code.
C21_DocumentedErrorCodes ==
    /\ \A r \in Requests :
           wRes[r].status >= 400 =>
               wRes[r].code \in {"INVALID_REQUEST", "SERVICE_UNAVAILABLE"}
    /\ (sendRes.status >= 400 /\ endpoint = "send") =>
           sendRes.code \in {"INVALID_REQUEST", "SEND_FAILED"}
    /\ (sendRes.status >= 400 /\ endpoint = "send-nft") =>
           sendRes.code \in {"INVALID_REQUEST", "SEND_NFT_FAILED"}
    /\ tokRes.status >= 400 =>
           tokRes.code \in {"SERVICE_UNAVAILABLE", "FETCH_TOKENS_FAILED"}
    /\ histRes.status >= 400 =>
           histRes.code \in {"SERVICE_UNAVAILABLE", "FETCH_HISTORY_FAILED"}
    /\ nftRes.status >= 400 =>
           nftRes.code \in {"SERVICE_UNAVAILABLE", "FETCH_NFTS_FAILED"}

(***************************************************************************)
(* Termination of the history request when an upstream call never answers  *)
(***************************************************************************)
\* The fetch of alchemy_getAssetTransfers is awaited with no signal and no
\* timer: when the indexer never answers, the promise never settles and no
\* continuation of the handler is ever scheduled.
HistoryHang ==
    /\ histPc = "loop"
    /\ histPc' = "hung"
    /\ UNCHANGED <<envVars, histIdx, histNow, histFetched, allTransactions,
                   histRes>>
    /\ UNCHANGED notHistory

NextHistoryLive ==
    \/ \E ctorOk \in BOOLEAN, acctOk \in BOOLEAN : HistoryReceive(ctorOk, acctOk)
    \/ \E mode \in HistoryModes, transfers \in TransferLists, tick \in {0, 1} :
            HistoryStep(mode, transfers, tick)
    \/ HistoryHang

\* C22 (as stated): every request eventually receives a response, even if an
\* upstream call never answers: once the handler has started its per-network
\* fetches it reaches its response.
C22_EventuallyResponds == (histPc = "loop") ~> (histPc = "done")

(***************************************************************************)
(* Claims about the failure of the NFT probe                               *)
(***************************************************************************)
\* The probe failed: no key, or an answer that is not a list of NFTs under
\* status 200
ProbeFailed == ~alchemyKey \/ probe \in ProbeResponses \ {"ok"}

\* C23 (as stated): whenever the probe of index.ts fails (key missing, non-OK
\* status, thrown fetch, malformed body) the contract is treated as not an
\* NFT: every contract a network listed is in the tokens of the response,
\* and the network's aggregation is not aborted.
C23_ProbeFailureKeepsToken ==
    (TokensOk /\ tokImpl = "cdp" /\ ProbeFailed) =>
        \A n \in Networks :
            \A k \in 1..Len(fetched[n].list) :
                \E i \in 1..Len(tokRes.tokens) :
                    /\ tokRes.tokens[i].chain = n
                    /\ tokRes.tokens[i].contractAddress = fetched[n].list[k]

(***************************************************************************)
(* Claims about the network of a broadcast                                 *)
(***************************************************************************)
\* C24 (as stated): every transaction POST /wallet/send-nft or the fallback
\* path of POST /wallet/send broadcasts goes to the network named in the
\* request (which the response echoes), and a request naming a network with
\* no chain entry broadcasts nothing.
C24_BroadcastOnRequestedNetwork ==
    \A i \in 1..Len(broadcasts) :
        broadcasts[i].via = "viem" =>
            /\ broadcasts[i].chain = body.network
            /\ body.network \in (IF endpoint = "send-nft" THEN NftChainMap
                                                           ELSE ChainMap)

(***************************************************************************)
(* Two GET /wallet/history calls with the same upstream responses          *)
(***************************************************************************)
\* The readings of Date.now() a later call may see in its three iterations:
\* the clock of the first call's end, advanced by 0 or 1 ms per iteration
ClockTicks == [1..Len(NetworkList) -> {0, 1}]

\* The transactions a second run of the handler's loop and sort returns when
\* every network answers what it answered the first call (histFetched)
RECURSIVE SecondCall(_, _, _, _)
SecondCall(i, now, acc, ticks) ==
    IF i > Len(NetworkList) THEN Sort(acc)
    ELSE LET network == NetworkList[i]
             answer  == histFetched[network]
         IN SecondCall(i + 1, now + ticks[i],
                       IF answer.mode = "ok"
                       THEN acc \o PushTransfers(network, answer.transfers,
                                                 now + ticks[i])
                       ELSE acc,
                       ticks)

\* The order of a response: which upstream record is at which place
RecordOrder(transactions) ==
    [k \in 1..Len(transactions) |->
        <<transactions[k].chain, transactions[k].hash>>]

\* C25 (as stated): two calls that receive identical upstream responses
\* return the transactions in identical order, records with equal
\* timestamps and records without a block timestamp included.
C25_DeterministicOrder ==
    HistoryOk =>
        \A ticks \in ClockTicks :
            RecordOrder(SecondCall(1, histNow, <<>>, ticks))
                = RecordOrder(histRes.transactions)

(***************************************************************************)
(* GET /wallet/nfts/:name: the record built for one owned NFT              *)
(***************************************************************************)
\* The entries of data.ownedNfts by the fields the record's names are built
\* from; "" is a field that is missing or empty (both are falsy)
OwnedNfts ==
    [metadataName : {"", "Ape One"}, name : {"", "Ape 1"},
     contractName : {"", "Apes"}, contractSymbol : {"", "APE"},
     tokenId : {"0", "7", "42"}]

\* No entry yet: the token id no entry has
NoOwnedNft ==
    [metadataName |-> "", name |-> "", contractName |-> "",
     contractSymbol |-> "", tokenId |-> ""]
NoNftRecord == [tokenId |-> "", name |-> <<>>, contractName |-> ""]

\* a || b of two strings
Or(a, b) == IF a # "" THEN a ELSE b

\* `${collection} #${tokenId}`: the pieces of the template, in order
Template(collection, tokenId) == <<collection, " #", tokenId>>

\* name: metadata.name || nft.name || `${nft.contract?.name || 'Unknown'} #${tokenId}`
NftName(nft) ==
    IF Or(nft.metadataName, nft.name) # ""
    THEN <<Or(nft.metadataName, nft.name)>>
    ELSE Template(Or(nft.contractName, "Unknown"), nft.tokenId)

\* contractName: nft.contract?.name || nft.contract?.symbol || 'Unknown Collection'
NftContractName(nft) ==
    Or(Or(nft.contractName, nft.contractSymbol), "Unknown Collection")

\* The name fields of the object pushed to allNfts
NftRecord(nft) ==
    [tokenId |-> nft.tokenId, name |-> NftName(nft),
     contractName |-> NftContractName(nft)]

Normalize(nft) ==
    /\ ownedNft = NoOwnedNft
    /\ ownedNft' = nft
    /\ nftRecord' = NftRecord(nft)
    /\ UNCHANGED notName

InitName ==
    /\ ownedNft = NoOwnedNft
    /\ nftRecord = NoNftRecord

NextName == \E nft \in OwnedNfts : Normalize(nft)

\* C26 (as stated): when an owned NFT has no name in its metadata or indexer
\* record, the name of its record is "{collectionName} #{tokenId}" with the
\* collection name the record carries in contractName.
C26_SynthesizedName ==
    (/\ ownedNft # NoOwnedNft
     /\ ownedNft.metadataName = ""
     /\ ownedNft.name = "") =>
        nftRecord.name = Template(nftRecord.contractName, nftRecord.tokenId)

(***************************************************************************)
(* getCdpClient: the module's singleton                                    *)
(***************************************************************************)
\* The number of getCdpClient calls of a run
MaxCalls == 6

\* if (cdpClient) without the early return: the variable is never found set
NeverCached(inst) == FALSE

\* if (cdpClient): the module variable holds a client
IsCached(inst) == inst # 0

\* One call of getCdpClient; new CdpClient(...) returns when ctorOk and throws
\* otherwise.  The call is synchronous: no other code runs inside it.
GetCdpClientCall(ctorOk) ==
    /\ Len(returned) < MaxCalls
    /\ IF IsCached(instance)
       THEN /\ returned' = Append(returned, instance)
            /\ UNCHANGED <<instance, ctorCalls, constructions, cdpClient>>
       ELSE IF ~cdpCreds
       THEN /\ returned' = Append(returned, 0)
            /\ UNCHANGED <<instance, ctorCalls, constructions, cdpClient>>
       ELSE /\ ctorCalls' = ctorCalls + 1
            /\ constructions' = IF ctorOk THEN constructions + 1 ELSE constructions
            /\ instance' = IF ctorOk THEN constructions' ELSE instance
            /\ returned' = Append(returned, IF ctorOk THEN instance' ELSE 0)
            /\ cdpClient' = GetCdpClient(ctorOk)
    /\ UNCHANGED <<cdpCreds, alchemyKey>>
    /\ UNCHANGED notClient

InitClient ==
    /\ instance = 0
    /\ ctorCalls = 0
    /\ constructions = 0
    /\ returned = <<>>

NextClient == \E ctorOk \in BOOLEAN : GetCdpClientCall(ctorOk)

\* The calls that returned null
NullReturns == {i \in 1..Len(returned) : returned[i] = 0}

\* C27: over any sequence of getCdpClient calls at most one client is
\* constructed; once a call has returned a client every later call returns
\* that same instance; a call without credentials or whose constructor
\* throws returns null and caches nothing, and every call made while nothing
\* is cached and the credentials are present evaluates the constructor again.
C27_ClientSingleton ==
    /\ constructions <= 1
    /\ \A i \in 1..Len(returned) : \A j \in i..Len(returned) :
           returned[i] # 0 => returned[j] = returned[i]
    /\ (instance = 0) <=> (NullReturns = 1..Len(returned))
    /\ cdpClient <=> (instance # 0)
    /\ ~cdpCreds => (ctorCalls = 0 /\ NullReturns = 1..Len(returned))
    /\ cdpCreds => ctorCalls = Cardinality(NullReturns) + constructions

\* C27 witness: a constructor that threw, a second call that constructed the
\* client, and a third call that returned the cached instance
C27_Witness ==
    /\ Len(returned) >= 3
    /\ returned[1] = 0
    /\ returned[2] # 0
    /\ returned[3] = returned[2]
    /\ ctorCalls = 2

(***************************************************************************)
(* The entities router: GET /entities/:entityId, POST /entities and        *)
(* PATCH /entities/:entityId behind requireAuth                            *)
(***************************************************************************)
\* Well-formed UUIDs: the ids of the users (and of their entities) and of
\* the agents; "bad" is a string that is no UUID, "" a missing field
UserIds  == {"u1", "u2"}
AgentIds == {"g1"}
IdStrings == UserIds \cup {"bad"}

\* validateUuid(value): the value when it is a UUID, null ("") otherwise
ValidateUuid(value) == IF value \in UserIds \cup AgentIds THEN value ELSE ""

NoEntity == [id |-> "", agentId |-> "", names |-> ""]

\* The fields of an entity or of a request body; names "[]" is the empty list
EntityBodies == [id : UserIds \cup {""}, agentId : AgentIds \cup {""},
                 names : {"", "n1"}]

\* What requireAuth leaves on the request for a verified token: req.userId
\* and req.isAdmin = decoded.isAdmin || false
Tokens28 == [userId : UserIds, isAdmin : BOOLEAN]

\* The authorization check with its condition removed
NeverForbidden(auth, entityId) == FALSE

\* if (!req.isAdmin && entityId !== req.userId)
Forbidden(auth, entityId) == ~auth.isAdmin /\ entityId # auth.userId

EntityResponse(method, auth, id, status, code, entity, reads, writes) ==
    [method |-> method, userId |-> auth.userId, isAdmin |-> auth.isAdmin,
     id |-> id, status |-> status, code |-> code, entity |-> entity,
     reads |-> reads, writes |-> writes]

\* entitiesRouter(serverInstance): const db = serverInstance?.database
EntitiesRouter(database) ==
    /\ entRouter = "none"
    /\ entRouter' = IF database THEN "db" ELSE "nodb"
    /\ UNCHANGED <<entDb, entLast>>
    /\ UNCHANGED notEntities

\* if (!db)
NoDb == entRouter = "nodb"

\* GET /entities/:entityId
EntityGet(auth, param, dbOk) ==
    /\ entRouter # "none"
    /\ LET entityId == ValidateUuid(param)
           Respond(status, code, entity, reads) ==
               entLast' = EntityResponse("GET", auth, param, status, code,
                                         entity, reads, {})
       IN IF entityId = "" THEN Respond(400, "INVALID_ID", NoEntity, {})
          ELSE IF NoDb THEN Respond(500, "DB_ERROR", NoEntity, {})
          ELSE IF Forbidden(auth, entityId)
          THEN Respond(403, "FORBIDDEN", NoEntity, {})
          ELSE IF ~dbOk
          THEN Respond(500, "INTERNAL_ERROR", NoEntity, {entityId})
          ELSE IF entDb[entityId] = NoEntity
          THEN Respond(404, "NOT_FOUND", NoEntity, {entityId})
          ELSE Respond(200, "", entDb[entityId], {entityId})
    /\ UNCHANGED <<entDb, entRouter>>
    /\ UNCHANGED notEntities

\* db.createEntities([entity]): "ok" stores the entity unless one is stored
\* under the id, "false" is a falsy result, "throws" an exception
CreateOutcomes == {"ok", "false", "throws"}

\* POST /entities
EntityPost(auth, b, create) ==
    /\ entRouter # "none"
    /\ LET entityId == ValidateUuid(b.id)
           entity   == [id |-> entityId, agentId |-> ValidateUuid(b.agentId),
                        names |-> IF b.names # "" THEN b.names ELSE "[]"]
           Respond(status, code, writes) ==
               entLast' = EntityResponse("POST", auth, b.id, status, code,
                                         IF status = 201 THEN entity ELSE NoEntity,
                                         {}, writes)
       IN IF b.id = ""
          THEN Respond(400, "INVALID_REQUEST", {}) /\ UNCHANGED entDb
          ELSE IF entityId = ""
          THEN Respond(400, "INVALID_ID", {}) /\ UNCHANGED entDb
          ELSE IF Forbidden(auth, entityId)
          THEN Respond(403, "FORBIDDEN", {}) /\ UNCHANGED entDb
          ELSE IF b.agentId = ""
          THEN Respond(400, "INVALID_REQUEST", {}) /\ UNCHANGED entDb
          ELSE IF NoDb
          THEN Respond(500, "DB_ERROR", {}) /\ UNCHANGED entDb
          ELSE IF create = "throws"
          THEN Respond(500, "INTERNAL_ERROR", {entityId}) /\ UNCHANGED entDb
          ELSE IF create = "false"
          THEN Respond(500, "CREATE_FAILED", {entityId}) /\ UNCHANGED entDb
          ELSE /\ Respond(201, "", {entityId})
               /\ entDb' = IF entDb[entityId] = NoEntity
                           THEN [entDb EXCEPT ![entityId] = entity]
                           ELSE entDb
    /\ UNCHANGED entRouter
    /\ UNCHANGED notEntities

\* { ...existingEntity, ...req.body, id: entityId }
MergeEntity(existing, b, entityId) ==
    LET spread == [id      |-> IF b.id # "" THEN b.id ELSE existing.id,
                   agentId |-> IF b.agentId # "" THEN b.agentId
                                                 ELSE existing.agentId,
                   names   |-> IF b.names # "" THEN b.names ELSE existing.names]
    IN [spread EXCEPT !.id = entityId]

\* PATCH /entities/:entityId; db.updateEntity writes the row of the id the
\* entity carries
EntityPatch(auth, param, b, dbOk) ==
    /\ entRouter # "none"
    /\ LET entityId == ValidateUuid(param)
           updated  == MergeEntity(entDb[entityId], b, entityId)
           Respond(status, code, entity, reads, writes) ==
               entLast' = EntityResponse("PATCH", auth, param, status, code,
                                         entity, reads, writes)
       IN IF entityId = ""
          THEN Respond(400, "INVALID_ID", NoEntity, {}, {}) /\ UNCHANGED entDb
          ELSE IF Forbidden(auth, entityId)
          THEN Respond(403, "FORBIDDEN", NoEntity, {}, {}) /\ UNCHANGED entDb
          ELSE IF NoDb
          THEN Respond(500, "DB_ERROR", NoEntity, {}, {}) /\ UNCHANGED entDb
          ELSE IF ~dbOk
          THEN /\ Respond(500, "INTERNAL_ERROR", NoEntity, {entityId}, {})
               /\ UNCHANGED entDb
          ELSE IF entDb[entityId] = NoEntity
          THEN /\ Respond(404, "NOT_FOUND", NoEntity, {entityId}, {})
               /\ UNCHANGED entDb
          ELSE /\ entDb' = [entDb EXCEPT ![updated.id] = updated]
               /\ Respond(200, "", entDb'[entityId], {entityId}, {updated.id})
    /\ UNCHANGED entRouter
    /\ UNCHANGED notEntities

NoRequest == EntityResponse("", [userId |-> "", isAdmin |-> FALSE], "", 0, "",
                            NoEntity, {}, {})

InitEntities ==
    /\ entDb = [id \in UserIds |-> NoEntity]
    /\ entRouter = "none"
    /\ entLast = NoRequest

NextEntities ==
    \/ \E database \in BOOLEAN : EntitiesRouter(database)
    \/ \E auth \in Tokens28, param \in IdStrings, dbOk \in BOOLEAN :
            EntityGet(auth, param, dbOk)
    \/ \E auth \in Tokens28, b \in EntityBodies, create \in CreateOutcomes :
            EntityPost(auth, b, create)
    \/ \E auth \in Tokens28, param \in IdStrings, b \in EntityBodies,
          dbOk \in BOOLEAN :
            EntityPatch(auth, param, b, dbOk)

(***************************************************************************)
(* Claims about the entities router                                        *)
(***************************************************************************)
\* The last request came from a user who is no admin and named an entity id
\* other than the user's own
ForeignRequest ==
    entLast.method # "" /\ ~entLast.isAdmin /\ entLast.id # entLast.userId

\* C28 (as stated): every request of a non-admin user that names the id of
\* another user's entity is answered 403 and leaves the database untouched.
C28_ForeignAnswered403 ==
    (ForeignRequest /\ entLast.id \in UserIds) =>
        /\ entLast.status = 403
        /\ entLast.reads = {} /\ entLast.writes = {}

\* C28 (amended): a non-admin user never reads, creates or updates an entity
\* whose id differs from their own userId: such a request issues no database call,
\* returns no entity and is answered 403 (400 when the id it names is
\* missing or no UUID, 500 by GET when there is no database); whatever a
\* non-admin request does, it reads and writes only the row of its own
\* userId; and every stored entity carries the id it is stored under, so no
\* PATCH changes an id.
C28_EntityAccessControl ==
    /\ ForeignRequest =>
           /\ entLast.reads = {} /\ entLast.writes = {}
           /\ entLast.entity = NoEntity
           /\ entLast.status \in {400, 403, 500}
           /\ (entLast.id \in UserIds
               /\ (entLast.method = "GET" => ~NoDb))
                  => entLast.status = 403
    /\ (entLast.method # "" /\ ~entLast.isAdmin) =>
           /\ entLast.reads \subseteq {entLast.userId}
           /\ entLast.writes \subseteq {entLast.userId}
           /\ entLast.entity # NoEntity => entLast.entity.id = entLast.userId
    /\ \A id \in UserIds : entDb[id] # NoEntity => entDb[id].id = id

\* C28 witness: a non-admin PATCH that names the stored entity of another
\* user, with a body that carries new fields and an id, is answered 403
C28_Witness ==
    /\ ForeignRequest
    /\ entLast.method = "PATCH"
    /\ entLast.id \in UserIds
    /\ entDb[entLast.id] # NoEntity
    /\ entLast.status = 403

(***************************************************************************)
(* DefiLlamaService: protocolHistoryCache and chainHistoryCache            *)
(***************************************************************************)
\* The largest MaxEntries setting and the last reading of the clock
MaxEntries == 2
MaxClock == 1

CacheNames == {"protocol", "chain"}

\* The cache keys asked for: slugs of protocols, names of chains
CacheKeys(cache) == IF cache = "protocol" THEN {"aave", "lido", "uniswap"} ELSE {"base"}

\* The TTL settings: DEFILLAMA_PROTOCOL_HISTORY_TTL_MS and
\* DEFILLAMA_CHAIN_TVL_TTL_MS accept every number >= 0
TtlSettings == {0, 1}

Callers == {"c1", "c2"}

Idle == [pc |-> "idle", cache |-> "", key |-> "", now |-> 0]

\* evictExpiredHistoryCaches for one cache: entries with
\* now - entry.timestamp > ttl are deleted, the others keep their order
EvictExpired(entries, now, ttl) ==
    SelectSeq(entries, LAMBDA e : ~(now - e.timestamp > ttl))

\* cache.get(key): the entry of the key, timestamp -1 when there is none
CacheGet(entries, key) ==
    IF \E i \in 1..Len(entries) : entries[i].key = key
    THEN entries[CHOOSE i \in 1..Len(entries) : entries[i].key = key]
    ELSE [key |-> key, timestamp |-> -1]

\* if (cache.has(key)) cache.delete(key)
CacheDelete(entries, key) == SelectSeq(entries, LAMBDA e : e.key # key)

\* cache.keys().next().value with the iteration order reversed
NewestKey(entries) == entries[Len(entries)].key

\* cache.keys().next().value: the key inserted first
OldestKey(entries) == entries[1].key

\* while (cache.size >= maxEntries) cache.delete(oldestKey)
RECURSIVE EvictOldest(_, _)
EvictOldest(entries, max) ==
    IF Len(entries) >= max /\ entries # <<>>
    THEN EvictOldest(CacheDelete(entries, OldestKey(entries)), max)
    ELSE entries

\* setProtocolHistoryCache / setChainHistoryCache
SetHistoryCache(entries, key, now, max) ==
    Append(EvictOldest(CacheDelete(entries, key), max),
           [key |-> key, timestamp |-> now])

\* No entry was served from a cache by the last step
NotServed == [cache |-> "", key |-> "", age |-> 0]

\* initialize(runtime): the settings are read once; both caches are given
\* the same MaxEntries
CacheInitialize(max, ttl) ==
    /\ cacheMax["protocol"] = 0
    /\ cacheMax' = [c \in CacheNames |-> max]
    /\ cacheTtl' = ttl
    /\ cacheServed' = NotServed
    /\ UNCHANGED <<histCaches, cacheClock, calls>>
    /\ UNCHANGED notCache

\* Time passes between two steps
CacheTick ==
    /\ cacheMax["protocol"] # 0
    /\ cacheClock < MaxClock
    /\ cacheClock' = cacheClock + 1
    /\ cacheServed' = NotServed
    /\ UNCHANGED <<cacheMax, cacheTtl, histCaches, calls>>
    /\ UNCHANGED notCache

\* getProtocolTvlHistory / getChainTvlHistory up to the await of the fetch:
\* const now = Date.now(), the eviction of expired entries of both caches,
\* and the return of a cached entry that is fresh
HistoryCallStart(caller, cache, key) ==
    /\ cacheMax["protocol"] # 0
    /\ calls[caller].pc = "idle"
    /\ LET now     == cacheClock
           evicted == [c \in CacheNames |->
                          EvictExpired(histCaches[c], now, cacheTtl)]
           cached  == CacheGet(evicted[cache], key)
       IN /\ histCaches' = evicted
          /\ IF cached.timestamp >= 0 /\ now - cached.timestamp <= cacheTtl
             THEN /\ cacheServed' = [cache |-> cache, key |-> key,
                                     age |-> now - cached.timestamp]
                  /\ UNCHANGED calls
             ELSE /\ calls' = [calls EXCEPT ![caller] =
                                  [pc |-> "fetch", cache |-> cache,
                                   key |-> key, now |-> now]]
                  /\ cacheServed' = NotServed
    /\ UNCHANGED <<cacheMax, cacheTtl, cacheClock>>
    /\ UNCHANGED notCache

\* fetchJsonWithRetry returned and the body has the expected shape: the
\* entry is stored under the now captured before the fetch
HistoryCallStore(caller) ==
    /\ calls[caller].pc = "fetch"
    /\ LET call == calls[caller]
       IN histCaches' = [histCaches EXCEPT ![call.cache] =
                            SetHistoryCache(@, call.key, call.now,
                                            cacheMax[call.cache])]
    /\ calls' = [calls EXCEPT ![caller] = Idle]
    /\ cacheServed' = NotServed
    /\ UNCHANGED <<cacheMax, cacheTtl, cacheClock>>
    /\ UNCHANGED notCache

\* fetchJsonWithRetry threw, or the body was rejected: nothing is stored
HistoryCallThrow(caller) ==
    /\ calls[caller].pc = "fetch"
    /\ calls' = [calls EXCEPT ![caller] = Idle]
    /\ cacheServed' = NotServed
    /\ UNCHANGED <<cacheMax, cacheTtl, histCaches, cacheClock>>
    /\ UNCHANGED notCache

InitCache ==
    /\ cacheMax = [c \in CacheNames |-> 0]
    /\ cacheTtl = 0
    /\ histCaches = [c \in CacheNames |-> <<>>]
    /\ cacheClock = 0
    /\ calls = [c \in Callers |-> Idle]
    /\ cacheServed = NotServed

NextCache ==
    \/ \E max \in 1..MaxEntries, ttl \in TtlSettings : CacheInitialize(max, ttl)
    \/ CacheTick
    \/ \E caller \in Callers, cache \in CacheNames :
         \E key \in CacheKeys(cache) : HistoryCallStart(caller, cache, key)
    \/ \E caller \in Callers : HistoryCallStore(caller)
    \/ \E caller \in Callers : HistoryCallThrow(caller)

(***************************************************************************)
(* Claims about the history caches                                         *)
(***************************************************************************)
\* Every cache holds at most MaxEntries entries, under distinct keys, and an
\* entry served from a cache is no older than the TTL
CachesBoundedAndFresh ==
    /\ \A c \in CacheNames :
          /\ cacheMax[c] # 0 => Len(histCaches[c]) <= cacheMax[c]
          /\ \A i, j \in 1..Len(histCaches[c]) :
                histCaches[c][i].key = histCaches[c][j].key => i = j
    /\ cacheServed # NotServed => cacheServed.age <= cacheTtl

\* A step that stores an entry keeps, of the entries under other keys, the
\* ones inserted last: what it evicts was inserted before all it keeps
OldestEvictedFirst ==
    \A caller \in Callers :
        (calls[caller].pc = "fetch" /\ calls'[caller].pc = "idle"
         /\ histCaches' # histCaches) =>
            LET c    == calls[caller].cache
                rest == CacheDelete(histCaches[c], calls[caller].key)
                new  == histCaches'[c]
                kept == SubSeq(new, 1, Len(new) - 1)
            IN /\ new[Len(new)] = [key |-> calls[caller].key,
                                   timestamp |-> calls[caller].now]
               /\ kept = SubSeq(rest, Len(rest) - Len(kept) + 1, Len(rest))
               /\ Len(new) = IF Len(rest) + 1 <= cacheMax[c]
                             THEN Len(rest) + 1 ELSE cacheMax[c]

MaxAttempts == 3

\* options.baseDelayMs, and Math.floor(Math.random() * 200), scaled down
BaseDelays == {2, 3}
Jitters == {0, 1}

RetryOptions == [maxAttempts : 0..MaxAttempts, baseDelayMs : BaseDelays]

\* The call: for (let attempt = 1; attempt <= maxAttempts; ...); the first
\* iteration arms the abort timer and calls fetch.  With maxAttempts < 1 the
\* loop is skipped and the function throws "Exhausted retries".
RetryCall(options) ==
    /\ retryPc = "idle"
    /\ retryOptions' = options
    /\ IF 1 <= options.maxAttempts
       THEN /\ attempt' = 1
            /\ fetches' = fetches + 1
            /\ retryPc' = "fetch"
       ELSE /\ retryPc' = "threw"
            /\ UNCHANGED <<attempt, fetches>>
    /\ UNCHANGED <<delays, retryValue>>
    /\ UNCHANGED notRetry

\* (baseDelayMs ?? 500) * Math.pow(2, attempt - 1) + jitter
DelayMs(base, n, jitter) == [base |-> base * Pow(2, n - 1), jitter |-> jitter]

\* The catch block: the last attempt throws, the others start the backoff
RetryCatch(jitter) ==
    IF attempt = retryOptions.maxAttempts
    THEN /\ retryPc' = "threw"
         /\ UNCHANGED delays
    ELSE /\ retryPc' = "sleep"
         /\ delays' = Append(delays,
                             DelayMs(retryOptions.baseDelayMs, attempt, jitter))

\* await fetch(url, {signal}) settles: with a response whose status is ok
\* or not, with a rejection, or with the abort the timer fires after
\* timeoutMs.  An ok response clears the timer and starts response.json().
RetryFetchSettles(outcome, jitter) ==
    /\ retryPc = "fetch"
    /\ IF outcome = "ok"
       THEN retryPc' = "body" /\ UNCHANGED delays
       ELSE RetryCatch(jitter)
    /\ UNCHANGED <<retryOptions, attempt, fetches, retryValue>>
    /\ UNCHANGED notRetry

\* await response.json() settles: with the parsed body, which is returned,
\* or with a rejection (a body that is no JSON, a broken connection)
RetryBodySettles(outcome, jitter) ==
    /\ retryPc = "body"
    /\ IF outcome = "json"
       THEN retryPc' = "returned" /\ retryValue' = "json" /\ UNCHANGED delays
       ELSE RetryCatch(jitter) /\ UNCHANGED retryValue
    /\ UNCHANGED <<retryOptions, attempt, fetches>>
    /\ UNCHANGED notRetry

\* The body never completes: the abort timer was cleared when the headers
\* arrived, so nothing settles response.json()
RetryBodyHangs ==
    /\ retryPc = "body"
    /\ retryPc' = "hung"
    /\ UNCHANGED <<retryOptions, attempt, fetches, delays, retryValue>>
    /\ UNCHANGED notRetry

\* The backoff timer fires: attempt++ and the next iteration
RetryWake ==
    /\ retryPc = "sleep"
    /\ attempt' = attempt + 1
    /\ fetches' = fetches + 1
    /\ retryPc' = "fetch"
    /\ UNCHANGED <<retryOptions, delays, retryValue>>
    /\ UNCHANGED notRetry

InitRetry ==
    /\ retryPc = "idle"
    /\ retryOptions = [maxAttempts |-> 0, baseDelayMs |-> 0]
    /\ attempt = 0
    /\ fetches = 0
    /\ delays = <<>>
    /\ retryValue = ""

NextRetry ==
    \/ \E options \in RetryOptions : RetryCall(options)
    \/ \E outcome \in {"ok", "notOk", "rejects", "aborted"}, jitter \in Jitters :
            RetryFetchSettles(outcome, jitter)
    \/ \E outcome \in {"json", "rejects"}, jitter \in Jitters :
            RetryBodySettles(outcome, jitter)
    \/ RetryBodyHangs
    \/ RetryWake

(***************************************************************************)
(* Claims about fetchJsonWithRetry                                         *)
(***************************************************************************)
\* The attempts are bounded and end the way the loop says: at most
\* maxAttempts fetches, a return only with the body of the attempt that
\* succeeded and with every earlier attempt failed, a throw only after
\* maxAttempts failures, and a backoff whose base part doubles
RetryBounded ==
    /\ fetches <= retryOptions.maxAttempts
    /\ fetches = attempt
    /\ retryPc = "returned" => retryValue = "json" /\ Len(delays) = attempt - 1
    /\ retryPc # "returned" => retryValue = ""
    /\ retryPc = "threw" => fetches = retryOptions.maxAttempts
    /\ \A k \in 1..Len(delays) :
          delays[k].base = retryOptions.baseDelayMs * Pow(2, k - 1)

\* C30 (as stated): fetchJsonWithRetry terminates: every call returns the
\* parsed body or throws.
C30_RetryTerminates ==
    (retryPc = "fetch") ~> (retryPc \in {"returned", "threw"})

(***************************************************************************)
(* Specifications                                                          *)
(***************************************************************************)
Init == InitEnv /\ InitSend /\ InitWallet /\ InitTokens /\ InitHistory /\
        InitNfts /\ InitPrice /\ InitBalance /\ InitName /\ InitClient /\
        InitEntities /\ InitCache /\ InitRetry

SpecSend == Init /\ [][NextSend]_vars

SpecWallet == Init /\ [][NextWallet]_vars

SpecTokens == Init /\ [][NextTokens]_vars

SpecHistory == Init /\ [][NextHistory]_vars

\* Every step the event loop can schedule is eventually taken.
SpecHistoryLive == Init /\ [][NextHistoryLive]_vars /\ WF_vars(NextHistoryLive)

SpecNfts == Init /\ [][NextNfts]_vars

SpecPrice == Init /\ [][NextPrice]_vars

SpecBalance == Init /\ [][NextBalance]_vars

SpecName == Init /\ [][NextName]_vars

SpecClient == Init /\ [][NextClient]_vars

SpecEntities == Init /\ [][NextEntities]_vars

SpecCache == Init /\ [][NextCache]_vars

\* Every step the event loop can schedule is eventually taken.
SpecRetry == Init /\ [][NextRetry]_vars /\ WF_vars(NextRetry)

====
